---- MODULE Spec2Model ----
(***************************************************************************)
(* State-machine model of the patients application (FastAPI + SQLAlchemy). *)
(*                                                                         *)
(* Text is modelled as a sequence of one-character strings, so that        *)
(* str.strip(), len() and ILIKE are computed and not assumed.  A calendar  *)
(* date is a day number >= 1; Python's None for an Optional[date] is       *)
(* NoneDate.  The wall clock counts minutes.                               *)
(***************************************************************************)
EXTENDS Integers, Sequences, FiniteSets, TLC

VARIABLES
    users,      \* table "users": set of rows [username, password_hash, role]
    patients,   \* table "patients": sequence of rows, ascending id
    cookie,     \* the client's cookie jar entry "access_token"
    now,        \* wall clock, minutes
    req,        \* the last request: operation, cookie sent, arguments
    resp        \* the response to it

vars == <<users, patients, cookie, now, req, resp>>

-----------------------------------------------------------------------------
(* Bounds of the model *)

MaxTime == 960          \* the clock stops advancing here
TickMinutes == 480      \* one clock step
MaxDay == 3             \* calendar days 1..MaxDay appear in requests
MaxPatients == 2        \* rows in the patients table (Spec)

-----------------------------------------------------------------------------
(* Text *)

RECURSIVE LStrip(_)
LStrip(s) == IF s # <<>> /\ Head(s) = " " THEN LStrip(Tail(s)) ELSE s

RECURSIVE RStrip(_)
RStrip(s) ==
    IF s # <<>> /\ s[Len(s)] = " " THEN RStrip(SubSeq(s, 1, Len(s) - 1)) ELSE s

\* str.strip()
Strip(s) == RStrip(LStrip(s))

\* str.lower() on one character of the alphabet in use
LowerChar(c) ==
    CASE c = "A" -> "a"
      [] c = "B" -> "b"
      [] c = "N" -> "n"
      [] c = "I" -> "i"
      [] OTHER -> c

Lower(s) == [i \in 1..Len(s) |-> LowerChar(s[i])]

\* column.ilike("%" + q + "%"): q occurs in s, ignoring case
ILikeContains(s, q) ==
    \E i \in 1..(Len(s) - Len(q) + 1) :
        Lower(SubSeq(s, i, i + Len(q) - 1)) = Lower(q)

NoText == <<"\\N">>      \* Python None / SQL NULL in a text position
EmptyText == <<>>        \* ""

\* Python: (x or "")
OrEmpty(s) == IF s = NoText THEN EmptyText ELSE s
\* Python: (x or None)
OrNone(s) == IF s = EmptyText THEN NoText ELSE s
\* Python truthiness of an Optional[str]
Truthy(s) == s # NoText /\ s # EmptyText

-----------------------------------------------------------------------------
(* Dates *)

NoneDate == 0
Days == 1..MaxDay

\* date.today(): the clock's day; the model starts on day 2
MinutesPerDay == 24 * 60
FirstDay == 1 + 1
Today == FirstDay + (now \div MinutesPerDay)

\* A date as text: absent (None), "", "YYYY-MM-DD" of a day, the same with
\* surrounding blanks, another layout pandas understands ("DD/MM/YYYY"),
\* or text that is no date.
RawDate(kind, day) == [kind |-> kind, day |-> day]
AbsentDate == RawDate("absent", 0)
EmptyDate == RawDate("empty", 0)
BadDate == RawDate("malformed", 0)
IsoDate(d) == RawDate("iso", d)

\* str.strip() on date text
StripDate(r) == IF r.kind = "padded" THEN IsoDate(r.day) ELSE r
\* (x or "") on date text
OrEmptyDate(r) == IF r.kind = "absent" THEN EmptyDate ELSE r

-----------------------------------------------------------------------------
(* auth.py *)

ACCESS_TOKEN_EXPIRE_MINUTES == 60 * 8
SECRET_KEY == "SECRET_KEY"

get_password_hash(password) == <<"bcrypt", password>>
verify_password(plain_password, password_hash) ==
    password_hash = get_password_hash(plain_password)

User(username, password, role) ==
    [username |-> username, password_hash |-> get_password_hash(password),
     role |-> role]
NoUser == [username |-> NoText, password_hash |-> <<>>, role |-> ""]

\* A token as the client holds it.  kind: "absent" (no cookie or ""),
\* "garbage" (not a JWT), "jwt".  key is the key that signed it.
Token(kind, hasSub, sub, exp, key) ==
    [kind |-> kind, hasSub |-> hasSub, sub |-> sub, exp |-> exp, key |-> key]
NoCookie == Token("absent", FALSE, NoText, 0, "")

create_access_token(sub, t) ==
    Token("jwt", TRUE, sub, t + ACCESS_TOKEN_EXPIRE_MINUTES, SECRET_KEY)

\* mutant: the expiry is not verified
jwt_decode_ignores_exp(token, t) ==
    /\ token.kind = "jwt"
    /\ token.key = SECRET_KEY

\* jwt.decode(token, SECRET_KEY): signature and expiry
jwt_decode_ok(token, t) ==
    /\ token.kind = "jwt"
    /\ token.key = SECRET_KEY
    /\ ~(token.exp < t)

\* db.query(User).filter(User.username == username).first()
UserByName(username) ==
    IF \E u \in users : u.username = username
    THEN CHOOSE u \in users : u.username = username
    ELSE NoUser

\* get_current_user: [code |-> 0, user] or [code |-> 401, detail]
Auth(code, detail, user) == [code |-> code, detail |-> detail, user |-> user]

get_current_user(token) ==
    IF token.kind = "absent" THEN Auth(401, "Not authenticated", NoUser)
    ELSE IF ~jwt_decode_ok(token, now) THEN Auth(401, "Invalid token", NoUser)
    ELSE IF ~token.hasSub THEN Auth(401, "Invalid token", NoUser)
    ELSE IF UserByName(token.sub) = NoUser THEN Auth(401, "User not found", NoUser)
    ELSE Auth(0, "", UserByName(token.sub))

\* mutant: the role is not compared
require_role_unchecked(roles, token) == get_current_user(token)

\* require_role(*roles): the wrapper over get_current_user
require_role(roles, token) ==
    LET a == get_current_user(token) IN
    IF a.code # 0 THEN a
    ELSE IF a.user.role \notin roles THEN Auth(403, "Insufficient permissions", NoUser)
    ELSE a

-----------------------------------------------------------------------------
(* models.py, database.py: the tables *)

Patient(id, nama, tanggal_lahir, tanggal_kunjungan, diagnosis, tindakan, dokter) ==
    [id |-> id, nama |-> nama, tanggal_lahir |-> tanggal_lahir,
     tanggal_kunjungan |-> tanggal_kunjungan, diagnosis |-> diagnosis,
     tindakan |-> tindakan, dokter |-> dokter]

\* Integer primary key on the default SQLite store: the largest rowid plus one
NextId(rows) == IF rows = <<>> THEN 1 ELSE rows[Len(rows)].id + 1

\* db.get(Patient, patient_id): the row's position, 0 when there is none
RowIndex(patient_id) ==
    IF \E i \in 1..Len(patients) : patients[i].id = patient_id
    THEN CHOOSE i \in 1..Len(patients) : patients[i].id = patient_id
    ELSE 0

RemoveAt(rows, i) == SubSeq(rows, 1, i - 1) \o SubSeq(rows, i + 1, Len(rows))

-----------------------------------------------------------------------------
(* main.py: responses and exception handlers *)

NoBody == [kind |-> "none"]

Request(op, token, args) == [op |-> op, token |-> token, args |-> args]
NoArgs == [kind |-> "none"]

Response(op, status, raised, detail, location, user, set_cookie, body) ==
    [op |-> op, status |-> status, raised |-> raised, detail |-> detail,
     location |-> location, user |-> user, set_cookie |-> set_cookie,
     body |-> body]

\* http_exception_handler: 401 on an HTML request redirects to /login,
\* everything else is rendered with the exception's status
http_exception_handler(op, code, detail, wants_html) ==
    IF code = 401 /\ wants_html
    THEN Response(op, 302, code, detail, "/login", NoUser, "none", NoBody)
    ELSE Response(op, code, code, detail, "", NoUser, "none", NoBody)

\* unhandled_exception_handler: any other exception is rendered as 500
unhandled_exception_handler(op) ==
    Response(op, 500, 0, "Terjadi kesalahan tak terduga di server.", "", NoUser, "none", NoBody)

RedirectResponse(op, url, user) ==
    Response(op, 302, 0, "", url, user, "none", NoBody)

TemplateResponse(op, status, user, body) ==
    Response(op, status, 0, "", "", user, "none", body)

NoRequest == Request("", NoCookie, NoArgs)
NoResponse == Response("", 0, 0, "", "", NoUser, "none", NoBody)

\* on_startup: tables created, the two demo accounts seeded
AdminName == <<"a", "d", "m", "i", "n">>
AdminPw == <<"a", "d", "m", "i", "n", "1", "2", "3">>
DokterName == <<"d", "o", "k", "t", "e", "r">>
DokterPw == <<"d", "o", "k", "t", "e", "r", "1", "2", "3">>

on_startup ==
    /\ users = {User(AdminName, AdminPw, "admin"), User(DokterName, DokterPw, "dokter")}
    /\ patients = <<>>

Init ==
    /\ on_startup
    /\ cookie = NoCookie
    /\ now = 0
    /\ req = NoRequest
    /\ resp = NoResponse

\* no request is being served
Idle == req = NoRequest

\* the clock advances between requests
Tick ==
    /\ Idle
    /\ now + TickMinutes <= MaxTime
    /\ now' = now + TickMinutes
    /\ UNCHANGED <<users, patients, cookie, req, resp>>

-----------------------------------------------------------------------------
(* routers/auth.py *)

login_form ==
    /\ req' = Request("login_form", NoCookie, NoArgs)
    /\ resp' = TemplateResponse("login_form", 200, NoUser, NoBody)
    /\ UNCHANGED <<users, patients, cookie, now>>

login(username, password, dbOk) ==
    LET user == UserByName(username) IN
    /\ req' = Request("login", NoCookie, [username |-> username, password |-> password])
    /\ IF ~dbOk THEN
           /\ resp' = TemplateResponse("login", 500, NoUser, [kind |-> "login", error |-> "db"])
           /\ UNCHANGED <<users, patients, cookie, now>>
       ELSE IF user = NoUser \/ ~verify_password(password, user.password_hash) THEN
           /\ resp' = TemplateResponse("login", 400, NoUser, [kind |-> "login", error |-> "credentials"])
           /\ UNCHANGED <<users, patients, cookie, now>>
       ELSE
           /\ cookie' = create_access_token(user.username, now)
           /\ resp' = [RedirectResponse("login", "/dashboard", NoUser) EXCEPT !.set_cookie = "set"]
           /\ UNCHANGED <<users, patients, now>>

\* mutant: the redirect is sent without delete_cookie
logout_keeps_cookie ==
    /\ req' = Request("logout", NoCookie, NoArgs)
    /\ resp' = RedirectResponse("logout", "/login", NoUser)
    /\ UNCHANGED <<users, patients, cookie, now>>

logout ==
    /\ req' = Request("logout", NoCookie, NoArgs)
    /\ cookie' = NoCookie
    /\ resp' = [RedirectResponse("logout", "/login", NoUser) EXCEPT !.set_cookie = "delete"]
    /\ UNCHANGED <<users, patients, now>>

-----------------------------------------------------------------------------
(* routers/users.py *)

UserForm(username, password, password2) ==
    [username |-> username, password |-> password, password2 |-> password2]

\* the errors dict: a set of <<field, reason>>
UserFormErrors(form) ==
    (IF form.username = EmptyText THEN {<<"username", "required">>}
     ELSE IF Len(form.username) < 3 THEN {<<"username", "short">>}
     ELSE {})
    \cup
    (IF form.password = EmptyText THEN {<<"password", "required">>}
     ELSE IF Len(form.password) < 6 THEN {<<"password", "short">>}
     ELSE {})
    \cup
    (IF form.password2 # form.password THEN {<<"password2", "mismatch">>} ELSE {})

list_doctors(token, wants_html, dbOk) ==
    LET a == require_role({"admin"}, token)
        doctors == IF dbOk THEN {u.username : u \in {x \in users : x.role = "dokter"}} ELSE {}
    IN
    /\ req' = Request("list_doctors", token, NoArgs)
    /\ resp' = IF a.code # 0
               THEN http_exception_handler("list_doctors", a.code, a.detail, wants_html)
               ELSE TemplateResponse("list_doctors", 200, a.user,
                                     [kind |-> "users_list", doctors |-> doctors])
    /\ UNCHANGED <<users, patients, cookie, now>>

new_user_form(token, wants_html) ==
    LET a == require_role({"admin"}, token) IN
    /\ req' = Request("new_user_form", token, NoArgs)
    /\ resp' = IF a.code # 0
               THEN http_exception_handler("new_user_form", a.code, a.detail, wants_html)
               ELSE TemplateResponse("new_user_form", 200, a.user,
                                     [kind |-> "user_form", errors |-> {}])
    /\ UNCHANGED <<users, patients, cookie, now>>

create_user(token, wants_html, username, password, password2, dbOk) ==
    LET a == require_role({"admin"}, token)
        form == UserForm(Strip(OrEmpty(username)), OrEmpty(password), OrEmpty(password2))
        errors0 == UserFormErrors(form)
        errors == IF errors0 = {} /\ UserByName(form.username) # NoUser
                  THEN {<<"username", "taken">>}
                  ELSE errors0
    IN
    /\ req' = Request("create_user", token, UserForm(username, password, password2))
    /\ IF a.code # 0 THEN
           /\ resp' = http_exception_handler("create_user", a.code, a.detail, wants_html)
           /\ UNCHANGED <<users, patients, cookie, now>>
       ELSE IF errors # {} THEN
           /\ resp' = TemplateResponse("create_user", 400, a.user,
                                       [kind |-> "user_form", errors |-> errors])
           /\ UNCHANGED <<users, patients, cookie, now>>
       ELSE IF ~dbOk THEN
           /\ resp' = TemplateResponse("create_user", 500, a.user,
                                       [kind |-> "user_form", errors |-> {<<"__all__", "db">>}])
           /\ UNCHANGED <<users, patients, cookie, now>>
       ELSE
           /\ users' = users \cup {User(form.username, form.password, "dokter")}
           /\ resp' = RedirectResponse("create_user", "/users?created=1", a.user)
           /\ UNCHANGED <<patients, cookie, now>>

-----------------------------------------------------------------------------
(* routers/patients.py *)

\* _doctor_choices, plus the current user when missing from it
\* (the order of the dropdown is not modelled)
_doctor_choices == {u.username : u \in {x \in users : x.role = "dokter"}}
DoctorsFor(user) == _doctor_choices \cup {user.username}

\* _parse_date(s, field, errors, required): [date, errors]
_parse_date(s, field, required) ==
    IF s.kind \in {"absent", "empty"}
    THEN [date |-> NoneDate,
          errors |-> IF required THEN {<<field, "required">>} ELSE {}]
    ELSE IF s.kind = "iso"
    THEN [date |-> s.day, errors |-> {}]
    ELSE [date |-> NoneDate, errors |-> {<<field, "format">>}]

PatientForm(nama, tanggal_lahir, tanggal_kunjungan, diagnosis, tindakan, dokter) ==
    [nama |-> nama, tanggal_lahir |-> tanggal_lahir,
     tanggal_kunjungan |-> tanggal_kunjungan, diagnosis |-> diagnosis,
     tindakan |-> tindakan, dokter |-> dokter]

\* form_values: every field "or ''" and stripped
FormValues(f) ==
    PatientForm(Strip(OrEmpty(f.nama)), StripDate(OrEmptyDate(f.tanggal_lahir)),
                StripDate(OrEmptyDate(f.tanggal_kunjungan)), Strip(OrEmpty(f.diagnosis)),
                Strip(OrEmpty(f.tindakan)), Strip(OrEmpty(f.dokter)))

\* the birth date is parsed with required=True
BirthDateRequired == TRUE

\* the checks shared by create_patient and update_patient
PatientFormErrors(fv, doctors) ==
    (IF fv.nama = EmptyText THEN {<<"nama", "required">>} ELSE {})
    \cup (IF fv.diagnosis = EmptyText THEN {<<"diagnosis", "required">>} ELSE {})
    \cup (IF fv.tindakan = EmptyText THEN {<<"tindakan", "required">>} ELSE {})
    \cup (IF fv.dokter = EmptyText THEN {<<"dokter", "required">>}
          ELSE IF fv.dokter \notin doctors THEN {<<"dokter", "unavailable">>}
          ELSE {})
    \cup _parse_date(fv.tanggal_lahir, "tanggal_lahir", BirthDateRequired).errors
    \cup _parse_date(fv.tanggal_kunjungan, "tanggal_kunjungan", TRUE).errors

\* the row built from valid form values
PatientOfForm(id, fv) ==
    Patient(id, fv.nama,
            _parse_date(fv.tanggal_lahir, "tanggal_lahir", BirthDateRequired).date,
            _parse_date(fv.tanggal_kunjungan, "tanggal_kunjungan", TRUE).date,
            fv.diagnosis, fv.tindakan, fv.dokter)

\* rows ordered by visit date, latest first (ties keep table order)
RECURSIVE InsertDesc(_, _)
InsertDesc(sorted, row) ==
    IF sorted = <<>> THEN <<row>>
    ELSE IF Head(sorted).tanggal_kunjungan >= row.tanggal_kunjungan
         THEN <<Head(sorted)>> \o InsertDesc(Tail(sorted), row)
         ELSE <<row>> \o sorted

RECURSIVE OrderByVisitDesc(_)
OrderByVisitDesc(rows) ==
    IF rows = <<>> THEN <<>>
    ELSE InsertDesc(OrderByVisitDesc(SubSeq(rows, 1, Len(rows) - 1)), rows[Len(rows)])

list_patients(token, wants_html, dbOk) ==
    LET a == get_current_user(token) IN
    /\ req' = Request("list_patients", token, NoArgs)
    /\ resp' = IF a.code # 0
               THEN http_exception_handler("list_patients", a.code, a.detail, wants_html)
               ELSE IF ~dbOk
               THEN http_exception_handler("list_patients", 500, "Gagal mengambil data pasien.", wants_html)
               ELSE TemplateResponse("list_patients", 200, a.user,
                        [kind |-> "patients_list", patients |-> OrderByVisitDesc(patients)])
    /\ UNCHANGED <<users, patients, cookie, now>>

new_patient_form(token, wants_html) ==
    LET a == require_role({"dokter"}, token) IN
    /\ req' = Request("new_patient_form", token, NoArgs)
    /\ resp' = IF a.code # 0
               THEN http_exception_handler("new_patient_form", a.code, a.detail, wants_html)
               ELSE TemplateResponse("new_patient_form", 200, a.user,
                        [kind |-> "patient_form", errors |-> {}, doctors |-> DoctorsFor(a.user)])
    /\ UNCHANGED <<users, patients, cookie, now>>

create_patient(token, wants_html, form, dbOk) ==
    LET a == require_role({"dokter"}, token)
        doctors == DoctorsFor(a.user)
        fv == FormValues(form)
        errors == PatientFormErrors(fv, doctors)
    IN
    /\ req' = Request("create_patient", token, form)
    /\ IF a.code # 0 THEN
           /\ resp' = http_exception_handler("create_patient", a.code, a.detail, wants_html)
           /\ UNCHANGED <<users, patients, cookie, now>>
       ELSE IF errors # {} THEN
           /\ resp' = TemplateResponse("create_patient", 400, a.user,
                           [kind |-> "patient_form", errors |-> errors, doctors |-> doctors])
           /\ UNCHANGED <<users, patients, cookie, now>>
       ELSE IF ~dbOk THEN
           /\ resp' = TemplateResponse("create_patient", 500, a.user,
                           [kind |-> "patient_form", errors |-> {<<"__all__", "db">>}, doctors |-> doctors])
           /\ UNCHANGED <<users, patients, cookie, now>>
       ELSE
           /\ patients' = Append(patients, PatientOfForm(NextId(patients), fv))
           /\ resp' = RedirectResponse("create_patient", "/patients", a.user)
           /\ UNCHANGED <<users, cookie, now>>

edit_patient_form(token, wants_html, patient_id) ==
    LET a == require_role({"dokter"}, token) IN
    /\ req' = Request("edit_patient_form", token, [patient_id |-> patient_id])
    /\ resp' = IF a.code # 0
               THEN http_exception_handler("edit_patient_form", a.code, a.detail, wants_html)
               ELSE IF RowIndex(patient_id) = 0
               THEN http_exception_handler("edit_patient_form", 404, "Data pasien tidak ditemukan.", wants_html)
               ELSE TemplateResponse("edit_patient_form", 200, a.user,
                        [kind |-> "patient_form", errors |-> {}, doctors |-> DoctorsFor(a.user)])
    /\ UNCHANGED <<users, patients, cookie, now>>

update_patient(token, wants_html, patient_id, form, dbOk) ==
    LET a == require_role({"dokter"}, token)
        i == RowIndex(patient_id)
        doctors == DoctorsFor(a.user)
        fv == FormValues(form)
        errors == PatientFormErrors(fv, doctors)
    IN
    /\ req' = Request("update_patient", token, [patient_id |-> patient_id, form |-> form])
    /\ IF a.code # 0 THEN
           /\ resp' = http_exception_handler("update_patient", a.code, a.detail, wants_html)
           /\ UNCHANGED <<users, patients, cookie, now>>
       ELSE IF i = 0 THEN
           /\ resp' = http_exception_handler("update_patient", 404, "Data pasien tidak ditemukan.", wants_html)
           /\ UNCHANGED <<users, patients, cookie, now>>
       ELSE IF errors # {} \/ ~dbOk THEN
           \* _render_form(request, ...): update_patient has no parameter
           \* "request", so both re-renders of the form raise NameError
           /\ resp' = unhandled_exception_handler("update_patient")
           /\ UNCHANGED <<users, patients, cookie, now>>
       ELSE
           /\ patients' = [patients EXCEPT ![i] = PatientOfForm(patient_id, fv)]
           /\ resp' = RedirectResponse("update_patient", "/patients", a.user)
           /\ UNCHANGED <<users, cookie, now>>

delete_patient(token, wants_html, patient_id, dbOk) ==
    LET a == require_role({"dokter"}, token)
        i == RowIndex(patient_id)
    IN
    /\ req' = Request("delete_patient", token, [patient_id |-> patient_id])
    /\ IF a.code # 0 THEN
           /\ resp' = http_exception_handler("delete_patient", a.code, a.detail, wants_html)
           /\ UNCHANGED <<users, patients, cookie, now>>
       ELSE IF i = 0 THEN
           /\ resp' = http_exception_handler("delete_patient", 404, "Data pasien tidak ditemukan.", wants_html)
           /\ UNCHANGED <<users, patients, cookie, now>>
       ELSE IF ~dbOk THEN
           /\ resp' = http_exception_handler("delete_patient", 500, "Gagal menghapus data pasien.", wants_html)
           /\ UNCHANGED <<users, patients, cookie, now>>
       ELSE
           /\ patients' = RemoveAt(patients, i)
           /\ resp' = RedirectResponse("delete_patient", "/patients", a.user)
           /\ UNCHANGED <<users, cookie, now>>

-----------------------------------------------------------------------------
(* routers/dashboard.py: filters *)

\* _parse_date_q: "" / None / anything strptime("%Y-%m-%d") rejects -> None
_parse_date_q(s) == IF s.kind = "iso" THEN s.day ELSE NoneDate

\* date.isoformat() if the date is set, else ""
IsoOrEmpty(d) == IF d # NoneDate THEN IsoDate(d) ELSE EmptyDate

DateRange(start, end) == [start |-> start, end |-> end]

\* mutant: a reversed pair is not swapped
DashboardRange_no_swap(start, end, today) ==
    LET s_start == _parse_date_q(start)
        s_end == _parse_date_q(end)
        eff_end == IF s_start # NoneDate /\ s_end = NoneDate THEN today ELSE s_end
    IN
    DateRange(s_start, eff_end)

\* mutant: a missing end is not defaulted to today
DashboardRange_no_default(start, end, today) ==
    LET s_start == _parse_date_q(start)
        s_end == _parse_date_q(end)
    IN
    IF s_start # NoneDate /\ s_end # NoneDate /\ s_start > s_end
    THEN DateRange(s_end, s_start)
    ELSE DateRange(s_start, s_end)

\* dashboard: parse, default the end to today, swap a reversed pair
DashboardRange(start, end, today) ==
    LET s_start == _parse_date_q(start)
        s_end == _parse_date_q(end)
        eff_end == IF s_start # NoneDate /\ s_end = NoneDate THEN today ELSE s_end
    IN
    IF s_start # NoneDate /\ eff_end # NoneDate /\ s_start > eff_end
    THEN DateRange(eff_end, s_start)
    ELSE DateRange(s_start, eff_end)

\* export_excel: the same block, written out again in the source
ExportRange(start, end, today) ==
    LET s_start == _parse_date_q(start)
        s_end == _parse_date_q(end)
        eff_end == IF s_start # NoneDate /\ s_end = NoneDate THEN today ELSE s_end
    IN
    IF s_start # NoneDate /\ eff_end # NoneDate /\ s_start > eff_end
    THEN DateRange(eff_end, s_start)
    ELSE DateRange(s_start, eff_end)

\* mutant: the start is not applied as a filter
RowMatches_no_start(r, q, eff_start, eff_end) ==
    /\ Truthy(q) => ILikeContains(r.nama, q)
    /\ eff_end # NoneDate => r.tanggal_kunjungan <= eff_end

\* one row against q / eff_start / eff_end; each filter only "if" it is set
RowMatches(r, q, eff_start, eff_end) ==
    /\ Truthy(q) => ILikeContains(r.nama, q)
    /\ eff_start # NoneDate => r.tanggal_kunjungan >= eff_start
    /\ eff_end # NoneDate => r.tanggal_kunjungan <= eff_end

\* dashboard: "Base query + filter"
ListingQuery(rows, q, eff_start, eff_end) ==
    LET Keep(r) == RowMatches(r, q, eff_start, eff_end) IN SelectSeq(rows, Keep)

\* mutant: the aggregations leave the name filter out
_apply_filters_no_q(rows, q, eff_start, eff_end) ==
    LET Keep(r) == RowMatches(r, NoText, eff_start, eff_end) IN SelectSeq(rows, Keep)

\* dashboard: _apply_filters, used by the three aggregations
_apply_filters(rows, q, eff_start, eff_end) ==
    LET Keep(r) == RowMatches(r, q, eff_start, eff_end) IN SelectSeq(rows, Keep)

\* export_excel: its own copy of the filter
ExportQuery(rows, q, eff_start, eff_end) ==
    LET Keep(r) == RowMatches(r, q, eff_start, eff_end) IN SelectSeq(rows, Keep)

-----------------------------------------------------------------------------
(* routers/dashboard.py: aggregations *)

RECURSIVE SumSeq(_)
SumSeq(s) == IF s = <<>> THEN 0 ELSE Head(s) + SumSeq(Tail(s))

Range(s) == {s[i] : i \in 1..Len(s)}

\* GROUP BY column, COUNT(id): the set of <<value, count>>
GroupCount(rows, column) ==
    {<<v, Cardinality({i \in 1..Len(rows) : rows[i][column] = v})>> :
        v \in {rows[i][column] : i \in 1..Len(rows)}}

\* visits per day: GROUP BY tanggal_kunjungan ORDER BY tanggal_kunjungan ASC
RECURSIVE AscByDate(_)
AscByDate(groups) ==
    IF groups = {} THEN <<>>
    ELSE LET first == CHOOSE g \in groups : \A h \in groups : g[1] <= h[1]
         IN <<first>> \o AscByDate(groups \ {first})

VisitsRows(rows) == AscByDate(GroupCount(rows, "tanggal_kunjungan"))

\* .filter(and_(column.isnot(None), column != ""))
NonEmptyColumn(rows, column) ==
    LET Keep(r) == r[column] # NoText /\ r[column] # EmptyText IN SelectSeq(rows, Keep)

\* ORDER BY COUNT(id) DESC leaves the order of equal counts to the store:
\* any ordering of the groups with non-increasing counts is a result
IsOrderByCountDesc(ordered, groups) ==
    /\ Len(ordered) = Cardinality(groups)
    /\ Range(ordered) = groups
    /\ \A i \in 1..(Len(ordered) - 1) : ordered[i][2] >= ordered[i + 1][2]

top_n == 8
Lainnya == <<"L", "a", "i", "n", "n", "y", "a">>
Dash == <<"-">>

\* mutant: the slice keeps one entry more than top_n
TopBucket_keeps_nine(ordered) ==
    LET head == SubSeq(ordered, 1, IF Len(ordered) < top_n + 1 THEN Len(ordered) ELSE top_n + 1)
        rest == SubSeq(ordered, top_n + 2, Len(ordered))
        labels == [i \in 1..Len(head) |-> IF Truthy(head[i][1]) THEN head[i][1] ELSE Dash]
        values == [i \in 1..Len(head) |-> head[i][2]]
        others_sum == SumSeq([i \in 1..Len(rest) |-> rest[i][2]])
    IN
    IF others_sum # 0
    THEN [labels |-> Append(labels, Lainnya), values |-> Append(values, others_sum)]
    ELSE [labels |-> labels, values |-> values]

\* mutant: the Other entry counts the collapsed categories, not their records
TopBucket_counts_groups(ordered) ==
    LET head == SubSeq(ordered, 1, IF Len(ordered) < top_n THEN Len(ordered) ELSE top_n)
        rest == SubSeq(ordered, top_n + 1, Len(ordered))
        labels == [i \in 1..Len(head) |-> IF Truthy(head[i][1]) THEN head[i][1] ELSE Dash]
        values == [i \in 1..Len(head) |-> head[i][2]]
        others_sum == Len(rest)
    IN
    IF others_sum # 0
    THEN [labels |-> Append(labels, Lainnya), values |-> Append(values, others_sum)]
    ELSE [labels |-> labels, values |-> values]

\* "Ambil top 8, gabungkan sisanya ke Lainnya"
TopBucket(ordered) ==
    LET head == SubSeq(ordered, 1, IF Len(ordered) < top_n THEN Len(ordered) ELSE top_n)
        rest == SubSeq(ordered, top_n + 1, Len(ordered))
        labels == [i \in 1..Len(head) |-> IF Truthy(head[i][1]) THEN head[i][1] ELSE Dash]
        values == [i \in 1..Len(head) |-> head[i][2]]
        others_sum == SumSeq([i \in 1..Len(rest) |-> rest[i][2]])
    IN
    IF others_sum # 0
    THEN [labels |-> Append(labels, Lainnya), values |-> Append(values, others_sum)]
    ELSE [labels |-> labels, values |-> values]

EmptyBucket == [labels |-> <<>>, values |-> <<>>]

DashboardArgs(q, start, end) == [q |-> q, start |-> start, end |-> end]

\* which of the four queries raise SQLAlchemyError
Failures(list, visits, diag, tind) ==
    [list |-> list, visits |-> visits, diag |-> diag, tind |-> tind]

\* mutant: a failed aggregation query fails the page like the listing query
dashboard_fails_whole_page(token, wants_html, q, start, end, fail, diag_rows, tind_rows) ==
    LET a == get_current_user(token)
        rng == DashboardRange(start, end, Today)
        listing == OrderByVisitDesc(ListingQuery(patients, q, rng.start, rng.end))
        total == Len(patients)
        filtered == _apply_filters(patients, q, rng.start, rng.end)
        rows == VisitsRows(filtered)
        visits == IF fail.visits THEN EmptyBucket
                  ELSE [labels |-> [i \in 1..Len(rows) |-> IsoDate(rows[i][1])],
                        values |-> [i \in 1..Len(rows) |-> rows[i][2]]]
        diag == IF fail.diag THEN EmptyBucket ELSE TopBucket(diag_rows)
        tind == IF fail.tind THEN EmptyBucket ELSE TopBucket(tind_rows)
    IN
    /\ fail.diag \/ IsOrderByCountDesc(diag_rows,
                        GroupCount(NonEmptyColumn(filtered, "diagnosis"), "diagnosis"))
    /\ fail.tind \/ IsOrderByCountDesc(tind_rows,
                        GroupCount(NonEmptyColumn(filtered, "tindakan"), "tindakan"))
    /\ req' = Request("dashboard", token, DashboardArgs(q, start, end))
    /\ resp' = IF a.code # 0
               THEN http_exception_handler("dashboard", a.code, a.detail, wants_html)
               ELSE IF fail.list \/ fail.visits \/ fail.diag \/ fail.tind
               THEN http_exception_handler("dashboard", 500, "Gagal memuat dashboard.", wants_html)
               ELSE TemplateResponse("dashboard", 200, a.user,
                        [kind |-> "dashboard",
                         patients |-> listing,
                         total |-> total,
                         q |-> OrEmpty(q),
                         start |-> IsoOrEmpty(rng.start),
                         end |-> IsoOrEmpty(rng.end),
                         visits_labels |-> visits.labels,
                         visits_values |-> visits.values,
                         diag_labels |-> diag.labels,
                         diag_values |-> diag.values,
                         tind_labels |-> tind.labels,
                         tind_values |-> tind.values])
    /\ UNCHANGED <<users, patients, cookie, now>>

\* GET /dashboard.  diag_rows and tind_rows are the grouped rows in the order
\* the store returns them.
dashboard(token, wants_html, q, start, end, fail, diag_rows, tind_rows) ==
    LET a == get_current_user(token)
        rng == DashboardRange(start, end, Today)
        listing == OrderByVisitDesc(ListingQuery(patients, q, rng.start, rng.end))
        total == Len(patients)
        filtered == _apply_filters(patients, q, rng.start, rng.end)
        rows == VisitsRows(filtered)
        visits == IF fail.visits THEN EmptyBucket
                  ELSE [labels |-> [i \in 1..Len(rows) |-> IsoDate(rows[i][1])],
                        values |-> [i \in 1..Len(rows) |-> rows[i][2]]]
        diag == IF fail.diag THEN EmptyBucket ELSE TopBucket(diag_rows)
        tind == IF fail.tind THEN EmptyBucket ELSE TopBucket(tind_rows)
    IN
    /\ fail.diag \/ IsOrderByCountDesc(diag_rows,
                        GroupCount(NonEmptyColumn(filtered, "diagnosis"), "diagnosis"))
    /\ fail.tind \/ IsOrderByCountDesc(tind_rows,
                        GroupCount(NonEmptyColumn(filtered, "tindakan"), "tindakan"))
    /\ req' = Request("dashboard", token, DashboardArgs(q, start, end))
    /\ resp' = IF a.code # 0
               THEN http_exception_handler("dashboard", a.code, a.detail, wants_html)
               ELSE IF fail.list
               THEN http_exception_handler("dashboard", 500, "Gagal memuat dashboard.", wants_html)
               ELSE TemplateResponse("dashboard", 200, a.user,
                        [kind |-> "dashboard",
                         patients |-> listing,
                         total |-> total,
                         q |-> OrEmpty(q),
                         start |-> IsoOrEmpty(rng.start),
                         end |-> IsoOrEmpty(rng.end),
                         visits_labels |-> visits.labels,
                         visits_values |-> visits.values,
                         diag_labels |-> diag.labels,
                         diag_values |-> diag.values,
                         tind_labels |-> tind.labels,
                         tind_values |-> tind.values])
    /\ UNCHANGED <<users, patients, cookie, now>>

\* one spreadsheet row: dates written with isoformat(), None when unset
ExportRow(r) ==
    [ID |-> r.id, Nama |-> r.nama,
     TanggalLahir |-> IF r.tanggal_lahir # NoneDate THEN IsoDate(r.tanggal_lahir) ELSE AbsentDate,
     TanggalKunjungan |-> IF r.tanggal_kunjungan # NoneDate THEN IsoDate(r.tanggal_kunjungan) ELSE AbsentDate,
     Diagnosis |-> r.diagnosis, Tindakan |-> r.tindakan, Dokter |-> r.dokter]

\* GET /export.xlsx
export_excel(token, wants_html, q, start, end, dbOk, excelOk) ==
    LET a == get_current_user(token)
        rng == ExportRange(start, end, Today)
        rows == ExportQuery(patients, q, rng.start, rng.end)
        data == [i \in 1..Len(rows) |-> ExportRow(rows[i])]
    IN
    /\ req' = Request("export_excel", token, DashboardArgs(q, start, end))
    /\ resp' = IF a.code # 0
               THEN http_exception_handler("export_excel", a.code, a.detail, wants_html)
               ELSE IF ~dbOk
               THEN http_exception_handler("export_excel", 500, "Gagal mengambil data untuk export.", wants_html)
               ELSE IF ~excelOk
               THEN http_exception_handler("export_excel", 500, "Gagal membuat file Excel.", wants_html)
               ELSE Response("export_excel", 200, 0, "", "", a.user, "none",
                             [kind |-> "xlsx", sheet |-> "Pasien", data |-> data])
    /\ UNCHANGED <<users, patients, cookie, now>>

\* GET /: to the dashboard when the cookie names a stored user, else to /login
root(token) ==
    LET ok == /\ token.kind # "absent"
              /\ jwt_decode_ok(token, now)
              /\ UserByName(IF token.hasSub THEN token.sub ELSE NoText) # NoUser
    IN
    /\ req' = Request("root", token, NoArgs)
    /\ resp' = RedirectResponse("root", IF ok THEN "/dashboard" ELSE "/login", NoUser)
    /\ UNCHANGED <<users, patients, cookie, now>>

-----------------------------------------------------------------------------
(* routers/dashboard.py: import *)

MAX_ITEMS == 500

\* one JSON object of the payload; a key that is missing holds None
ImportItem(nama, name, tanggal_kunjungan, visit_date, tanggal_lahir, diagnosis, tindakan, dokter) ==
    [nama |-> nama, name |-> name, tanggal_kunjungan |-> tanggal_kunjungan,
     visit_date |-> visit_date, tanggal_lahir |-> tanggal_lahir,
     diagnosis |-> diagnosis, tindakan |-> tindakan, dokter |-> dokter]

\* the body: a JSON array, or one JSON object
ListPayload(items) == [isList |-> TRUE, items |-> items]
DictPayload(item) == [isList |-> FALSE, items |-> <<item>>]

\* items = payload if isinstance(payload, list) else [payload]
ItemsOf(payload) == IF payload.isList THEN payload.items ELSE <<payload.items[1]>>

\* truthiness of date text
TruthyDate(r) == r.kind \notin {"absent", "empty"}

\* to_date: None and "" give None; pandas reads ISO text, ISO text with
\* blanks around it and other common layouts; anything else is an error
to_date(val) ==
    IF val.kind \in {"absent", "empty"} THEN [date |-> NoneDate, error |-> FALSE]
    ELSE IF val.kind \in {"iso", "padded", "other"} THEN [date |-> val.day, error |-> FALSE]
    ELSE [date |-> NoneDate, error |-> TRUE]

\* (item.get("nama") or item.get("name") or "").strip()
ItemNama(item) ==
    Strip(IF Truthy(item.nama) THEN item.nama
          ELSE IF Truthy(item.name) THEN item.name
          ELSE EmptyText)

\* item.get("tanggal_kunjungan") or item.get("visit_date")
ItemTglRaw(item) ==
    IF TruthyDate(item.tanggal_kunjungan) THEN item.tanggal_kunjungan ELSE item.visit_date

\* the body of the per-item try: "" when the item is staged, else the reason
ItemError(item) ==
    IF ItemNama(item) = EmptyText \/ ~TruthyDate(ItemTglRaw(item)) THEN "required"
    ELSE IF to_date(ItemTglRaw(item)).error THEN "format"
    ELSE IF to_date(item.tanggal_lahir).error THEN "format"
    ELSE ""

PatientOfItem(id, item) ==
    Patient(id, ItemNama(item), to_date(item.tanggal_lahir).date,
            to_date(ItemTglRaw(item)).date, OrNone(item.diagnosis),
            OrNone(item.tindakan), OrNone(item.dokter))

\* mutant: the loop ends at the first item that raises
StagedItems_until_error(items) ==
    LET bad == {i \in 1..Len(items) : ItemError(items[i]) # ""}
        stop == IF bad = {} THEN Len(items) + 1
                ELSE CHOOSE i \in bad : \A j \in bad : i <= j
    IN SubSeq(items, 1, stop - 1)

\* the loop over enumerate(items): each item is judged on its own, so the
\* staged rows and the errors are the two selections of the items, in order
StagedItems(items) == LET Good(item) == ItemError(item) = "" IN SelectSeq(items, Good)

ImportErrors(items) ==
    LET all == [i \in 1..Len(items) |->
                   [index |-> i - 1, error |-> ItemError(items[i]), item |-> items[i]]]
        Bad(e) == e.error # ""
    IN SelectSeq(all, Bad)

\* the rows db.commit() writes, ids handed out in staging order
StagedRows(rows, items) ==
    LET staged == StagedItems(items)
        base == NextId(rows)
    IN [k \in 1..Len(staged) |-> PatientOfItem(base + k - 1, staged[k])]

\* Depends(get_current_user): any signed-in user
ImportGate(token) == get_current_user(token)

\* mutant: the cap refuses a batch of MAX_ITEMS items
import_patients_cap_inclusive(token, wants_html, payload, dbOk) ==
    LET a == ImportGate(token)
        items == ItemsOf(payload)
        created == Len(StagedItems(items))
        errors == ImportErrors(items)
        status_code == IF created # 0 /\ errors = <<>> THEN 200 ELSE 207
    IN
    /\ req' = Request("import_patients", token, payload)
    /\ IF a.code # 0 THEN
           /\ resp' = http_exception_handler("import_patients", a.code, a.detail, wants_html)
           /\ UNCHANGED <<users, patients, cookie, now>>
       ELSE IF Len(items) >= MAX_ITEMS THEN
           /\ resp' = Response("import_patients", 413, 0, "Maksimal 500 item per import.",
                               "", a.user, "none", NoBody)
           /\ UNCHANGED <<users, patients, cookie, now>>
       ELSE IF ~dbOk THEN
           /\ resp' = http_exception_handler("import_patients", 500,
                               "Gagal menyimpan data import ke database.", wants_html)
           /\ UNCHANGED <<users, patients, cookie, now>>
       ELSE
           /\ patients' = patients \o StagedRows(patients, items)
           /\ resp' = Response("import_patients", status_code, 0, "", "", a.user, "none",
                               [kind |-> "import", status |-> "ok", created |-> created,
                                failed |-> Len(errors), errors |-> errors])
           /\ UNCHANGED <<users, cookie, now>>

\* mutant: a failed commit keeps the rows written before it failed
import_patients_no_rollback(token, wants_html, payload, dbOk) ==
    LET a == ImportGate(token)
        items == ItemsOf(payload)
        created == Len(StagedItems(items))
        errors == ImportErrors(items)
        status_code == IF created # 0 /\ errors = <<>> THEN 200 ELSE 207
    IN
    /\ req' = Request("import_patients", token, payload)
    /\ IF a.code # 0 THEN
           /\ resp' = http_exception_handler("import_patients", a.code, a.detail, wants_html)
           /\ UNCHANGED <<users, patients, cookie, now>>
       ELSE IF Len(items) > MAX_ITEMS THEN
           /\ resp' = Response("import_patients", 413, 0, "Maksimal 500 item per import.",
                               "", a.user, "none", NoBody)
           /\ UNCHANGED <<users, patients, cookie, now>>
       ELSE IF ~dbOk THEN
           /\ resp' = http_exception_handler("import_patients", 500,
                               "Gagal menyimpan data import ke database.", wants_html)
           /\ patients' = patients \o StagedRows(patients, items)
           /\ UNCHANGED <<users, cookie, now>>
       ELSE
           /\ patients' = patients \o StagedRows(patients, items)
           /\ resp' = Response("import_patients", status_code, 0, "", "", a.user, "none",
                               [kind |-> "import", status |-> "ok", created |-> created,
                                failed |-> Len(errors), errors |-> errors])
           /\ UNCHANGED <<users, cookie, now>>

\* mutant: the status looks at the errors only
import_patients_status_by_errors(token, wants_html, payload, dbOk) ==
    LET a == ImportGate(token)
        items == ItemsOf(payload)
        created == Len(StagedItems(items))
        errors == ImportErrors(items)
        status_code == IF errors = <<>> THEN 200 ELSE 207
    IN
    /\ req' = Request("import_patients", token, payload)
    /\ IF a.code # 0 THEN
           /\ resp' = http_exception_handler("import_patients", a.code, a.detail, wants_html)
           /\ UNCHANGED <<users, patients, cookie, now>>
       ELSE IF Len(items) > MAX_ITEMS THEN
           /\ resp' = Response("import_patients", 413, 0, "Maksimal 500 item per import.",
                               "", a.user, "none", NoBody)
           /\ UNCHANGED <<users, patients, cookie, now>>
       ELSE IF ~dbOk THEN
           /\ resp' = http_exception_handler("import_patients", 500,
                               "Gagal menyimpan data import ke database.", wants_html)
           /\ UNCHANGED <<users, patients, cookie, now>>
       ELSE
           /\ patients' = patients \o StagedRows(patients, items)
           /\ resp' = Response("import_patients", status_code, 0, "", "", a.user, "none",
                               [kind |-> "import", status |-> "ok", created |-> created,
                                failed |-> Len(errors), errors |-> errors])
           /\ UNCHANGED <<users, cookie, now>>

\* POST /import
import_patients(token, wants_html, payload, dbOk) ==
    LET a == ImportGate(token)
        items == ItemsOf(payload)
        created == Len(StagedItems(items))
        errors == ImportErrors(items)
        status_code == IF created # 0 /\ errors = <<>> THEN 200 ELSE 207
    IN
    /\ req' = Request("import_patients", token, payload)
    /\ IF a.code # 0 THEN
           /\ resp' = http_exception_handler("import_patients", a.code, a.detail, wants_html)
           /\ UNCHANGED <<users, patients, cookie, now>>
       ELSE IF Len(items) > MAX_ITEMS THEN
           /\ resp' = Response("import_patients", 413, 0, "Maksimal 500 item per import.",
                               "", a.user, "none", NoBody)
           /\ UNCHANGED <<users, patients, cookie, now>>
       ELSE IF ~dbOk THEN
           /\ resp' = http_exception_handler("import_patients", 500,
                               "Gagal menyimpan data import ke database.", wants_html)
           /\ UNCHANGED <<users, patients, cookie, now>>
       ELSE
           /\ patients' = patients \o StagedRows(patients, items)
           /\ resp' = Response("import_patients", status_code, 0, "", "", a.user, "none",
                               [kind |-> "import", status |-> "ok", created |-> created,
                                failed |-> Len(errors), errors |-> errors])
           /\ UNCHANGED <<users, cookie, now>>

-----------------------------------------------------------------------------
(* Requests of the model *)

AniName == <<"A", "n", "i">>
BinName == <<"B", "i", "n">>
BudiName == <<"b", "u", "d", "i">>
BudiPw == <<"b", "u", "d", "i", "1", "2">>
GhostName == <<"g", "h", "o", "s", "t">>
Flu == <<"f", "l", "u">>
Obat == <<"o", "b", "a", "t">>
Blank == <<" ">>

\* cookies a client can send besides its own: none, text that is no JWT, a
\* JWT signed with another key, and JWTs signed with the server's key that
\* carry no subject or the name of an account the store does not hold
FarFuture == MaxTime + ACCESS_TOKEN_EXPIRE_MINUTES
ForgedTokens ==
    {NoCookie,
     Token("garbage", FALSE, NoText, 0, ""),
     Token("jwt", TRUE, DokterName, FarFuture, "another key"),
     Token("jwt", FALSE, NoText, FarFuture, SECRET_KEY),
     Token("jwt", TRUE, GhostName, FarFuture, SECRET_KEY)}

SentTokens == {cookie} \cup ForgedTokens

LoginNames == {AdminName, DokterName, BudiName}
LoginPasswords == {AdminPw, DokterPw, BudiPw}

UserForms ==
    {UserForm(<<" ">> \o BudiName, BudiPw, BudiPw),
     UserForm(DokterName, BudiPw, BudiPw),
     UserForm(<<"b", "u">>, <<"1", "2", "3">>, BudiPw)}

GoodForm(nama, day) ==
    PatientForm(nama, IsoDate(1), IsoDate(day), Flu, Obat, DokterName)

PatientForms ==
    {GoodForm(AniName, 1),
     GoodForm(<<" ">> \o BinName \o <<" ">>, MaxDay),
     [GoodForm(AniName, 1) EXCEPT !.tanggal_lahir = AbsentDate],
     [GoodForm(Blank, 1) EXCEPT !.dokter = AdminName, !.tanggal_kunjungan = BadDate]}

GoodItem(nama, day, diagnosis) ==
    ImportItem(nama, NoText, IsoDate(day), AbsentDate, AbsentDate, diagnosis, NoText, NoText)

ImportPayloads ==
    {DictPayload(GoodItem(AniName, 2, Flu)),
     ListPayload(<<>>),
     ListPayload(<<GoodItem(Blank, 2, Flu), GoodItem(AniName, 2, Flu)>>)}

\* ids stay within 1..MaxPatients + 1
PatientIds == 1..(MaxPatients + 1)

NoFailures == Failures(FALSE, FALSE, FALSE, FALSE)

\* every ordering of a set of groups, as sequences
Orderings(groups) ==
    {p \in [1..Cardinality(groups) -> groups] : Range(p) = groups}

DiagGroups(q, rng) ==
    GroupCount(NonEmptyColumn(_apply_filters(patients, q, rng.start, rng.end), "diagnosis"),
               "diagnosis")
TindGroups(q, rng) ==
    GroupCount(NonEmptyColumn(_apply_filters(patients, q, rng.start, rng.end), "tindakan"),
               "tindakan")

-----------------------------------------------------------------------------
(* Spec: every operation, small stores *)

Login == \E u \in LoginNames, p \in LoginPasswords, dbOk \in BOOLEAN : login(u, p, dbOk)

ListDoctors == \E t \in SentTokens, h, dbOk \in BOOLEAN : list_doctors(t, h, dbOk)

NewUserForm == \E t \in SentTokens, h \in BOOLEAN : new_user_form(t, h)

CreateUser ==
    \E t \in SentTokens, h, dbOk \in BOOLEAN, f \in UserForms :
        create_user(t, h, f.username, f.password, f.password2, dbOk)

ListPatients == \E t \in SentTokens, h, dbOk \in BOOLEAN : list_patients(t, h, dbOk)

NewPatientForm == \E t \in SentTokens, h \in BOOLEAN : new_patient_form(t, h)

CreatePatient ==
    \E t \in SentTokens, h, dbOk \in BOOLEAN, f \in PatientForms :
        /\ Len(patients) < MaxPatients
        /\ NextId(patients) \in PatientIds
        /\ create_patient(t, h, f, dbOk)

EditPatientForm ==
    \E t \in SentTokens, h \in BOOLEAN, id \in PatientIds : edit_patient_form(t, h, id)

UpdatePatient ==
    \E t \in SentTokens, h, dbOk \in BOOLEAN, id \in PatientIds, f \in PatientForms :
        update_patient(t, h, id, f, dbOk)

DeletePatient ==
    \E t \in SentTokens, h, dbOk \in BOOLEAN, id \in PatientIds :
        delete_patient(t, h, id, dbOk)

ImportPatients ==
    \E t \in SentTokens, h, dbOk \in BOOLEAN, p \in ImportPayloads :
        /\ Len(patients) + Len(StagedItems(ItemsOf(p))) <= MaxPatients
        /\ NextId(patients) + Len(StagedItems(ItemsOf(p))) - 1 \in PatientIds
        /\ import_patients(t, h, p, dbOk)

Dashboard ==
    \E t \in SentTokens, h, failList \in BOOLEAN, start \in {AbsentDate, IsoDate(1)} :
        LET rng == DashboardRange(start, AbsentDate, Today) IN
        \E d \in Orderings(DiagGroups(NoText, rng)), n \in Orderings(TindGroups(NoText, rng)) :
            dashboard(t, h, NoText, start, AbsentDate,
                      Failures(failList, FALSE, FALSE, FALSE), d, n)

ExportExcel ==
    \E t \in SentTokens, h, dbOk, excelOk \in BOOLEAN, start \in {AbsentDate, IsoDate(1)} :
        export_excel(t, h, NoText, start, AbsentDate, dbOk, excelOk)

Root == \E t \in SentTokens : root(t)

\* the client has read the response; the next request can be made
Receive ==
    /\ ~Idle
    /\ req' = NoRequest
    /\ resp' = NoResponse
    /\ UNCHANGED <<users, patients, cookie, now>>

Next ==
    \/ Tick
    \/ Idle /\ login_form
    \/ Idle /\ Login
    \/ Idle /\ logout
    \/ Idle /\ Root
    \/ Idle /\ ListDoctors
    \/ Idle /\ NewUserForm
    \/ Idle /\ CreateUser
    \/ Idle /\ ListPatients
    \/ Idle /\ NewPatientForm
    \/ Idle /\ CreatePatient
    \/ Idle /\ EditPatientForm
    \/ Idle /\ UpdatePatient
    \/ Idle /\ DeletePatient
    \/ Idle /\ ImportPatients
    \/ Idle /\ Dashboard
    \/ Idle /\ ExportExcel
    \/ Receive

Spec == Init /\ [][Next]_vars

-----------------------------------------------------------------------------
(* SpecDash: a signed-in doctor fills the table and asks for the dashboard *)
(* and the export with every kind of date text, on day 2 and on day 3      *)

MaxDashRows == 2

InitDash ==
    /\ on_startup
    /\ now \in {0, MinutesPerDay}
    /\ cookie = create_access_token(DokterName, now)
    /\ req = NoRequest
    /\ resp = NoResponse

RawDates == {AbsentDate, EmptyDate, BadDate} \cup {IsoDate(d) : d \in Days}
Queries == {NoText, <<"a">>}

SingleFailures ==
    {NoFailures, Failures(TRUE, FALSE, FALSE, FALSE), Failures(FALSE, TRUE, FALSE, FALSE),
     Failures(FALSE, FALSE, TRUE, FALSE), Failures(FALSE, FALSE, FALSE, TRUE)}

DashImport ==
    \E nama \in {AniName, BinName}, day \in Days :
        /\ Len(patients) < MaxDashRows
        /\ import_patients(cookie, TRUE, DictPayload(GoodItem(nama, day, Flu)), TRUE)

DashDashboard ==
    \E q \in Queries, start \in RawDates, end \in RawDates, fail \in SingleFailures :
        LET rng == DashboardRange(start, end, Today) IN
        \E d \in Orderings(DiagGroups(q, rng)), n \in Orderings(TindGroups(q, rng)) :
            dashboard(cookie, TRUE, q, start, end, fail, d, n)

DashExport ==
    \E q \in Queries, start \in RawDates, end \in RawDates, dbOk \in BOOLEAN :
        export_excel(cookie, TRUE, q, start, end, dbOk, TRUE)

NextDash ==
    \/ Idle /\ DashImport
    \/ Idle /\ DashDashboard
    \/ Idle /\ DashExport
    \/ Receive

SpecDash == InitDash /\ [][NextDash]_vars

-----------------------------------------------------------------------------
(* Date range: C5 - C7 *)

Served(op) == req.op = op /\ resp.op = op /\ resp.status = 200

DayOf(text) == IF text.kind = "iso" THEN text.day ELSE NoneDate
Parses(text) == text.kind = "iso"

\* the rows of the table whose visit date lies in lo..hi
Between(lo, hi) ==
    {patients[i] : i \in {j \in 1..Len(patients) :
                            /\ patients[j].tanggal_kunjungan >= lo
                            /\ patients[j].tanggal_kunjungan <= hi}}

\* the visit dates a response shows
ListedDays == {resp.body.patients[i].tanggal_kunjungan : i \in 1..Len(resp.body.patients)}
ExportedDays == {DayOf(resp.body.data[i].TanggalKunjungan) : i \in 1..Len(resp.body.data)}

\* C5: when the dashboard shows both bounds, the start is not after the
\* end; the export, which does not show its bounds, returns no row outside
\* a range with that property.
C5_StartNotAfterEnd ==
    /\ (Served("dashboard") /\ resp.body.start # EmptyDate /\ resp.body.end # EmptyDate) =>
          resp.body.start.day <= resp.body.end.day
    /\ Served("export_excel") =>
          LET rng == ExportRange(req.args.start, req.args.end, Today) IN
          (rng.start = NoneDate \/ rng.end = NoneDate) \/
              /\ rng.start <= rng.end
              /\ \A d \in ExportedDays : rng.start <= d /\ d <= rng.end

\* a start after today with no end: the end is defaulted, the pair swapped
C5_Witness ==
    /\ Served("dashboard")
    /\ Parses(req.args.start)
    /\ ~Parses(req.args.end)
    /\ req.args.start.day > Today
    /\ resp.body.start = IsoDate(Today)
    /\ resp.body.end = req.args.start

\* C6 (as claimed): a start that parses and an end that does not give the
\* effective end today, whatever the start.
C6_EndIsToday ==
    /\ (Served("dashboard") /\ Parses(req.args.start) /\ ~Parses(req.args.end)) =>
              resp.body.end = IsoDate(Today)
    /\ (Served("export_excel") /\ Parses(req.args.start) /\ ~Parses(req.args.end)) =>
              ExportRange(req.args.start, req.args.end, Today).end = Today

\* C6 (amended): the effective end is today when the start is not after
\* today; a start after today is swapped with the defaulted end, so the
\* effective start is today and the effective end is the start given.
C6_EndIsTodayUnlessSwapped ==
    /\ (Served("dashboard") /\ Parses(req.args.start) /\ ~Parses(req.args.end)) =>
              IF req.args.start.day <= Today
              THEN resp.body.start = req.args.start /\ resp.body.end = IsoDate(Today)
              ELSE resp.body.start = IsoDate(Today) /\ resp.body.end = req.args.start
    /\ (Served("export_excel") /\ Parses(req.args.start) /\ ~Parses(req.args.end)) =>
              ExportRange(req.args.start, req.args.end, Today) =
                  IF req.args.start.day <= Today
                  THEN DateRange(req.args.start.day, Today)
                  ELSE DateRange(Today, req.args.start.day)

\* a start before today, the end left empty
C6_Witness ==
    /\ Served("dashboard")
    /\ Parses(req.args.start)
    /\ req.args.end = EmptyDate
    /\ req.args.start.day < Today
    /\ resp.body.end = IsoDate(Today)

\* C7 (as claimed): with only a start given no row with an earlier visit
\* date is listed or exported; with only an end given, none with a later one.
C7_StartIsLowerBound ==
    /\ (Served("dashboard") /\ Parses(req.args.start) /\ ~Parses(req.args.end)) =>
          \A d \in ListedDays : d >= req.args.start.day
    /\ (Served("export_excel") /\ Parses(req.args.start) /\ ~Parses(req.args.end)) =>
          \A d \in ExportedDays : d >= req.args.start.day
    /\ (Served("dashboard") /\ ~Parses(req.args.start) /\ Parses(req.args.end)) =>
          \A d \in ListedDays : d <= req.args.end.day
    /\ (Served("export_excel") /\ ~Parses(req.args.start) /\ Parses(req.args.end)) =>
          \A d \in ExportedDays : d <= req.args.end.day

\* C7 (amended): with only a start given that is not after today, the rows
\* listed and exported are visits from the start to today, both included;
\* with a start after today they are visits from today to the start; with
\* only an end given, no row with a later visit date is listed or exported,
\* and there is no lower bound.
OnlyStartLow == IF req.args.start.day <= Today THEN req.args.start.day ELSE Today
OnlyStartHigh == IF req.args.start.day <= Today THEN Today ELSE req.args.start.day

C7_StartIsLowerBoundUpToToday ==
    /\ (Served("dashboard") /\ Parses(req.args.start) /\ ~Parses(req.args.end)) =>
          /\ \A d \in ListedDays : OnlyStartLow <= d /\ d <= OnlyStartHigh
          /\ ~Truthy(req.args.q) => Range(resp.body.patients) = Between(OnlyStartLow, OnlyStartHigh)
    /\ (Served("export_excel") /\ Parses(req.args.start) /\ ~Parses(req.args.end)) =>
          /\ \A d \in ExportedDays : OnlyStartLow <= d /\ d <= OnlyStartHigh
          /\ ~Truthy(req.args.q) =>
                {resp.body.data[i].ID : i \in 1..Len(resp.body.data)}
                    = {r.id : r \in Between(OnlyStartLow, OnlyStartHigh)}
    /\ (Served("dashboard") /\ ~Parses(req.args.start) /\ Parses(req.args.end)) =>
          /\ \A d \in ListedDays : d <= req.args.end.day
          /\ ~Truthy(req.args.q) => Range(resp.body.patients) = Between(1, req.args.end.day)
    /\ (Served("export_excel") /\ ~Parses(req.args.start) /\ Parses(req.args.end)) =>
          /\ \A d \in ExportedDays : d <= req.args.end.day
          /\ ~Truthy(req.args.q) =>
                {resp.body.data[i].ID : i \in 1..Len(resp.body.data)}
                    = {r.id : r \in Between(1, req.args.end.day)}

\* only a start, not after today; a visit on the start day is listed and an
\* earlier visit is stored but not listed
C7_Witness ==
    /\ Served("dashboard")
    /\ Parses(req.args.start)
    /\ ~Parses(req.args.end)
    /\ req.args.start.day <= Today
    /\ req.args.start.day \in ListedDays
    /\ \E i \in 1..Len(patients) : patients[i].tanggal_kunjungan < req.args.start.day

-----------------------------------------------------------------------------
(* Access control: C1 - C4 *)

DoctorOps ==
    {"new_patient_form", "create_patient", "edit_patient_form", "update_patient",
     "delete_patient"}
AdminOps == {"list_doctors", "new_user_form", "create_user"}
RoleGatedOps == DoctorOps \cup AdminOps
GatedOps ==
    RoleGatedOps \cup {"list_patients", "dashboard", "export_excel", "import_patients"}

AllowedRoles(op) == IF op \in DoctorOps THEN {"dokter"} ELSE {"admin"}

\* what the claims call an authentic cookie, at the time of the request
Authentic(token) ==
    /\ token.kind = "jwt"
    /\ token.key = SECRET_KEY
    /\ token.exp >= now
    /\ token.hasSub
    /\ \E u \in users : u.username = token.sub

Bearer(token) == CHOOSE u \in users : u.username = token.sub

\* C1 (as claimed): a step that changes the patients table serves a request
\* whose cookie belongs to a user of role dokter.
C1_OnlyDoctorsChangePatients ==
    [][patients' # patients =>
          /\ Authentic(req'.token)
          /\ Bearer(req'.token).role = "dokter"]_vars

\* C2: on a role-gated operation, a signed-in user outside the allowed roles
\* gets 403 and both tables stay as they were; a user inside them is not
\* refused, and is the user the handler answers for (a handler that ends in
\* an unhandled exception answers for no user).
C2_RoleGate ==
    [][(req'.op \in RoleGatedOps /\ Authentic(req'.token)) =>
          IF Bearer(req'.token).role \notin AllowedRoles(req'.op)
          THEN /\ resp'.raised = 403
               /\ resp'.status = 403
               /\ users' = users
               /\ patients' = patients
          ELSE /\ resp'.raised \notin {401, 403}
               /\ (resp'.raised = 0 /\ resp' # unhandled_exception_handler(req'.op)) =>
                      resp'.user = Bearer(req'.token)]_vars

C2_Witness ==
    /\ req.op = "create_user"
    /\ Authentic(req.token)
    /\ Bearer(req.token).role = "dokter"
    /\ resp.raised = 403

\* C3: a gated request is served for user u only when its cookie is a token
\* with a valid signature, not past its expiry, whose subject is u, a stored
\* user; every other request is answered 401 with no body, and tables and
\* cookie stay as they were.  A token issued by login expires 8 hours later.
EightHours == 8 * 60

C3_Authentication ==
    [][/\ req'.op \in GatedOps =>
            IF Authentic(req'.token)
            THEN /\ resp'.raised # 401
                 /\ resp'.user # NoUser => resp'.user.username = req'.token.sub
            ELSE /\ resp'.raised = 401
                 /\ resp'.user = NoUser
                 /\ resp'.body = NoBody
                 /\ users' = users
                 /\ patients' = patients
                 /\ cookie' = cookie
       /\ resp'.set_cookie = "set" => cookie'.exp = now + EightHours]_vars

\* an expired cookie, issued by login, is refused
C3_Witness ==
    /\ req.op \in GatedOps
    /\ req.token = cookie
    /\ cookie.kind = "jwt"
    /\ cookie.exp < now
    /\ resp.raised = 401

\* C4: a login whose username is stored and whose password matches (the
\* store answering) sets the cookie for that user and redirects to the
\* dashboard; any other login leaves the cookie as it was; logout clears
\* it, and from then on the client's gated requests are answered 401 until
\* a login succeeds.
CredentialsMatch(username, password) ==
    \E u \in users : u.username = username /\ verify_password(password, u.password_hash)

C4_LoginLogout ==
    [][/\ req'.op = "login" =>
            IF CredentialsMatch(req'.args.username, req'.args.password) /\ resp'.status # 500
            THEN /\ resp'.status = 302
                 /\ resp'.location = "/dashboard"
                 /\ resp'.set_cookie = "set"
                 /\ cookie'.kind = "jwt"
                 /\ cookie'.key = SECRET_KEY
                 /\ cookie'.hasSub
                 /\ cookie'.sub = req'.args.username
                 /\ cookie'.exp >= now
            ELSE /\ resp'.set_cookie = "none"
                 /\ resp'.status \in {400, 500}
                 /\ cookie' = cookie
       /\ req'.op = "logout" => cookie' = NoCookie
       /\ (cookie = NoCookie /\ cookie' # NoCookie) =>
            (req'.op = "login" /\ resp'.status = 302)
       /\ (cookie = NoCookie /\ req'.op \in GatedOps /\ req'.token = cookie) =>
            resp'.raised = 401]_vars

\* a successful login over a cleared cookie
C4_Witness ==
    /\ req.op = "login"
    /\ resp.status = 302
    /\ resp.set_cookie = "set"
    /\ cookie.sub = req.args.username

-----------------------------------------------------------------------------
(* SpecAgg: a signed-in doctor imports batches of visits, one batch per    *)
(* day in date order, and asks for the dashboard.  A batch holds k         *)
(* categories in one of the two category fields; the other field is left   *)
(* unset, and one item of each batch repeats a category.                   *)

MaxCats == 10

\* category i is the text "x" repeated i times
CatText(i) == [j \in 1..i |-> "x"]

AggDays == {FirstDay - 1, FirstDay}
CategoryColumns == {"diagnosis", "tindakan"}

AggItem(column, i, day) ==
    IF column = "diagnosis"
    THEN ImportItem(AniName, NoText, IsoDate(day), AbsentDate, AbsentDate,
                    CatText(i), EmptyText, NoText)
    ELSE ImportItem(AniName, NoText, IsoDate(day), AbsentDate, AbsentDate,
                    NoText, CatText(i), NoText)

\* k items of k categories, then no item, the first category again, or
\* the last category again
AggPayload(column, k, shape, day) ==
    ListPayload([i \in 1..k |-> AggItem(column, i, day)]
                \o (IF k = 0 \/ shape = "flat" THEN <<>>
                    ELSE IF shape = "first" THEN <<AggItem(column, 1, day)>>
                    ELSE <<AggItem(column, k, day)>>))

\* two results of ORDER BY COUNT(id) DESC: equal counts in ascending and
\* in descending order of the category text's length
RECURSIVE ByCountDesc(_, _)
ByCountDesc(groups, longFirst) ==
    IF groups = {} THEN <<>>
    ELSE LET first == CHOOSE g \in groups : \A h \in groups :
                          \/ g[2] > h[2]
                          \/ /\ g[2] = h[2]
                             /\ IF longFirst THEN Len(g[1]) >= Len(h[1])
                                ELSE Len(g[1]) <= Len(h[1])
         IN <<first>> \o ByCountDesc(groups \ {first}, longFirst)

StoreOrders(groups) == {ByCountDesc(groups, b) : b \in BOOLEAN}

InitAgg ==
    /\ on_startup
    /\ now = 0
    /\ cookie = create_access_token(DokterName, now)
    /\ req = NoRequest
    /\ resp = NoResponse

AggImport ==
    \E column \in CategoryColumns, k \in 0..MaxCats,
       shape \in {"flat", "first", "last"}, day \in AggDays :
        /\ \A i \in 1..Len(patients) : patients[i].tanggal_kunjungan < day
        /\ import_patients(cookie, TRUE, AggPayload(column, k, shape, day), TRUE)

AggDashboard ==
    \E start \in {AbsentDate, IsoDate(FirstDay)} :
        LET rng == DashboardRange(start, AbsentDate, Today) IN
        \E d \in StoreOrders(DiagGroups(NoText, rng)), n \in StoreOrders(TindGroups(NoText, rng)) :
            dashboard(cookie, TRUE, NoText, start, AbsentDate, NoFailures, d, n)

NextAgg ==
    \/ Idle /\ AggImport
    \/ Idle /\ AggDashboard
    \/ Receive

SpecAgg == InitAgg /\ [][NextAgg]_vars

-----------------------------------------------------------------------------
(* Category buckets: C8, C9 *)

\* the stored records the request's filters keep whose column is set
Categorised(column) ==
    LET rng == DashboardRange(req.args.start, req.args.end, Today) IN
    {i \in 1..Len(patients) :
        /\ rng.start # NoneDate => patients[i].tanggal_kunjungan >= rng.start
        /\ rng.end # NoneDate => patients[i].tanggal_kunjungan <= rng.end
        /\ patients[i][column] # NoText
        /\ patients[i][column] # EmptyText}

CategoriesOf(column) == {patients[i][column] : i \in Categorised(column)}
CountOf(column, v) == Cardinality({i \in Categorised(column) : patients[i][column] = v})

BucketLabels(column) ==
    IF column = "diagnosis" THEN resp.body.diag_labels ELSE resp.body.tind_labels
BucketValues(column) ==
    IF column = "diagnosis" THEN resp.body.diag_values ELSE resp.body.tind_values

\* the entries of a bucket that are categories: all of them, but for a
\* ninth, which is the Other entry
KeptCount(column) ==
    IF Len(BucketLabels(column)) > 8 THEN 8 ELSE Len(BucketLabels(column))
Kept(column) == {BucketLabels(column)[i] : i \in 1..KeptCount(column)}

\* C8: with k distinct categories among the filtered records a bucket has
\* min(k, 8) category entries, each a different category, and after them
\* one entry "Lainnya" exactly when k > 8.
C8_BucketEntries ==
    Served("dashboard") =>
        \A column \in CategoryColumns :
            LET k == Cardinality(CategoriesOf(column))
                labels == BucketLabels(column)
            IN
            /\ Len(BucketValues(column)) = Len(labels)
            /\ Len(labels) = IF k > 8 THEN 8 + 1 ELSE k
            /\ \A i \in 1..(IF k > 8 THEN 8 ELSE k) : labels[i] \in CategoriesOf(column)
            /\ \A i, j \in 1..(IF k > 8 THEN 8 ELSE k) : labels[i] = labels[j] => i = j
            /\ k > 8 => labels[8 + 1] = Lainnya

\* ten diagnoses give nine entries, and eight procedures give eight
C8_Witness ==
    /\ Served("dashboard")
    /\ Cardinality(CategoriesOf("diagnosis")) = 10
    /\ Len(resp.body.diag_labels) = 9
    /\ resp.body.diag_labels[9] = Lainnya
    /\ Cardinality(CategoriesOf("tindakan")) = 8
    /\ Len(resp.body.tind_labels) = 8

RECURSIVE SumOver(_, _)
SumOver(column, cats) ==
    IF cats = {} THEN 0
    ELSE LET c == CHOOSE x \in cats : TRUE
         IN CountOf(column, c) + SumOver(column, cats \ {c})

\* C9: the counts of a bucket sum to the number of filtered records whose
\* column is set; each category entry carries its category's count; the
\* Other entry carries the sum of the counts of the categories that are
\* not entries; and no category that is an entry has a smaller count than
\* one that is not.
C9_BucketCounts ==
    Served("dashboard") =>
        \A column \in CategoryColumns :
            LET labels == BucketLabels(column)
                values == BucketValues(column)
                collapsed == CategoriesOf(column) \ Kept(column)
            IN
            /\ SumSeq(values) = Cardinality(Categorised(column))
            /\ \A i \in 1..KeptCount(column) : values[i] = CountOf(column, labels[i])
            /\ Len(labels) > 8 => values[8 + 1] = SumOver(column, collapsed)
            /\ \A c \in Kept(column), o \in collapsed :
                   CountOf(column, c) >= CountOf(column, o)

\* ten diagnoses with different counts, two of them collapsed, under a
\* date filter that leaves some records out
C9_Witness ==
    /\ Served("dashboard")
    /\ Parses(req.args.start)
    /\ Cardinality(Categorised("diagnosis")) < Len(patients)
    /\ Cardinality(CategoriesOf("diagnosis")) = 10
    /\ resp.body.diag_values[1] = 2
    /\ resp.body.diag_values[9] = 2
    /\ SumSeq(resp.body.diag_values) = 11

-----------------------------------------------------------------------------
(* SpecImport: a client posts batches around the cap of MAX_ITEMS items,   *)
(* signed in as the doctor or with no cookie.  An item is valid or carries *)
(* a blank name; a batch is all valid, all blank, or valid only at its     *)
(* first or at its last item.                                              *)

MaxImportRows == 2       \* rows in the table when a batch arrives

BatchSizes == {0, 1, 2, MAX_ITEMS - 1, MAX_ITEMS, MAX_ITEMS + 1, MAX_ITEMS + MAX_ITEMS}
BatchShapes == {"valid", "blank", "first", "last"}

BatchItem(valid, day) ==
    IF valid THEN GoodItem(AniName, day, Flu) ELSE GoodItem(Blank, day, Flu)

Batch(n, shape, day) ==
    ListPayload([i \in 1..n |->
        BatchItem(\/ shape = "valid"
                  \/ shape = "first" /\ i = 1
                  \/ shape = "last" /\ i = n, day)])

BatchPayloads ==
    {Batch(n, shape, day) : n \in BatchSizes, shape \in BatchShapes, day \in AggDays}
    \cup {DictPayload(BatchItem(valid, day)) : valid \in BOOLEAN, day \in AggDays}

InitImport ==
    /\ on_startup
    /\ now = 0
    /\ cookie = create_access_token(DokterName, now)
    /\ req = NoRequest
    /\ resp = NoResponse

BatchImport ==
    \E token \in {cookie, NoCookie}, payload \in BatchPayloads, dbOk \in BOOLEAN :
        /\ Len(patients) <= MaxImportRows
        /\ import_patients(token, FALSE, payload, dbOk)

NextImport ==
    \/ Idle /\ BatchImport
    \/ Receive

SpecImport == InitImport /\ [][NextImport]_vars

-----------------------------------------------------------------------------
(* Import cap: C10 *)

\* the number of elements of a request body: of the array, or one for an
\* object
BodySize(payload) == IF payload.isList THEN Len(payload.items) ELSE 1

Processed(r) == r.status \in {200, 207} /\ r.body.kind = "import"

\* C10: a signed-in client's batch of more than 500 items is answered 413
\* and both tables stay as they were; a batch of 500 items or fewer is
\* never answered 413; and when a batch is processed, an array of n items
\* as n items and an object as one item, every item is reported as created
\* or as failed and the table grows by the number created.
C10_ImportCap ==
    [][(req'.op = "import_patients" /\ Authentic(req'.token)) =>
          IF BodySize(req'.args) > 500
          THEN /\ resp'.status = 413
               /\ resp'.body = NoBody
               /\ patients' = patients
               /\ users' = users
          ELSE /\ resp'.status # 413
               /\ resp'.status \in {200, 207, 500}
               /\ Processed(resp') =>
                     /\ resp'.body.created + resp'.body.failed = BodySize(req'.args)
                     /\ Len(patients') = Len(patients) + resp'.body.created
               /\ ~Processed(resp') => patients' = patients]_vars

\* 501 valid items, refused
C10_Witness ==
    /\ req.op = "import_patients"
    /\ Authentic(req.token)
    /\ Len(req.args.items) = 501
    /\ ItemError(req.args.items[501]) = ""
    /\ ItemError(req.args.items[1]) = ""
    /\ resp.status = 413
    /\ Len(patients) = 1

-----------------------------------------------------------------------------
(* SpecItems: a signed-in doctor posts batches of up to MaxBatchLen items  *)
(* drawn from valid and invalid items of every kind, and single objects;   *)
(* the commit succeeds or fails.                                           *)

MaxBatchLen == 3
MaxItemRows == 1        \* rows in the table when a batch arrives

PaddedBin == <<" ">> \o BinName \o <<" ">>

BatchItems ==
    {\* valid: the Indonesian keys
     ImportItem(AniName, NoText, IsoDate(FirstDay), AbsentDate, AbsentDate, Flu, NoText, NoText),
     \* valid: the English keys, a birth date in another layout
     ImportItem(NoText, BinName, AbsentDate, IsoDate(1), RawDate("other", 1), NoText, Obat, DokterName),
     \* valid: blanks around the name and the date, empty optional fields
     ImportItem(PaddedBin, NoText, RawDate("padded", FirstDay), AbsentDate, EmptyDate,
                EmptyText, EmptyText, EmptyText),
     \* no name under either key
     ImportItem(EmptyText, NoText, IsoDate(FirstDay), AbsentDate, AbsentDate, Flu, NoText, NoText),
     \* a blank nama beside a name
     ImportItem(Blank, AniName, IsoDate(FirstDay), AbsentDate, AbsentDate, Flu, NoText, NoText),
     \* no visit date under either key
     ImportItem(AniName, NoText, EmptyDate, AbsentDate, IsoDate(1), Flu, NoText, NoText),
     \* a tanggal_kunjungan that is no date beside a visit_date that is one
     ImportItem(AniName, NoText, BadDate, IsoDate(1), AbsentDate, Flu, NoText, NoText),
     \* a birth date that is no date
     ImportItem(AniName, NoText, IsoDate(FirstDay), AbsentDate, BadDate, Flu, NoText, NoText)}

RECURSIVE SeqsUpTo(_, _)
SeqsUpTo(S, n) ==
    IF n = 0 THEN {<<>>}
    ELSE LET shorter == SeqsUpTo(S, n - 1)
         IN shorter \cup {Append(s, x) : s \in {t \in shorter : Len(t) = n - 1}, x \in S}

ItemPayloads ==
    {ListPayload(s) : s \in SeqsUpTo(BatchItems, MaxBatchLen)}
    \cup {DictPayload(item) : item \in BatchItems}

InitItems ==
    /\ on_startup
    /\ now = 0
    /\ cookie = create_access_token(DokterName, now)
    /\ req = NoRequest
    /\ resp = NoResponse

ItemsImport ==
    \E payload \in ItemPayloads, dbOk \in BOOLEAN :
        /\ Len(patients) <= MaxItemRows
        /\ import_patients(cookie, FALSE, payload, dbOk)

NextItems ==
    \/ Idle /\ ItemsImport
    \/ Receive

SpecItems == InitItems /\ [][NextItems]_vars

-----------------------------------------------------------------------------
(* Import report: C11 - C13 *)

\* the elements of a request body, in order
BodyItems(payload) == IF payload.isList THEN payload.items ELSE <<payload.items[1]>>

ParseableDate(text) == text.kind \in {"iso", "padded", "other"}
GivenDate(text) == text.kind \notin {"absent", "empty"}

\* the value under the first key when it is set and not "", else the value
\* under the second key
ResolvedName(item) == IF Truthy(item.nama) THEN item.nama ELSE OrEmpty(item.name)
ResolvedVisit(item) ==
    IF GivenDate(item.tanggal_kunjungan) THEN item.tanggal_kunjungan ELSE item.visit_date

\* valid, the name and the visit date taken from the resolved key
ValidItem(item) ==
    /\ Strip(ResolvedName(item)) # EmptyText
    /\ ParseableDate(ResolvedVisit(item))
    /\ ~GivenDate(item.tanggal_lahir) \/ ParseableDate(item.tanggal_lahir)

\* valid, the name and the visit date taken from either key
ValidUnderEitherKey(item) ==
    /\ \/ Truthy(item.nama) /\ Strip(item.nama) # EmptyText
       \/ Truthy(item.name) /\ Strip(item.name) # EmptyText
    /\ ParseableDate(item.tanggal_kunjungan) \/ ParseableDate(item.visit_date)
    /\ ~GivenDate(item.tanggal_lahir) \/ ParseableDate(item.tanggal_lahir)

\* the position of index i among the indices of S, counted from 1
RankIn(S, i) == Cardinality({j \in S : j <= i})

\* the indices, counted from 1, of the valid items of a batch
ValidIndices(items) == {i \in 1..Len(items) : ValidItem(items[i])}
EitherKeyIndices(items) == {i \in 1..Len(items) : ValidUnderEitherKey(items[i])}

\* a processed batch reports and stores the items at the indices of good,
\* and reports the others as errors, every one at its 0-based index, in
\* ascending order
ReportMatches(items, good, before, after, body) ==
    LET bad == (1..Len(items)) \ good IN
    /\ body.created = Cardinality(good)
    /\ body.failed = Cardinality(bad)
    /\ Len(after) = Len(before) + Cardinality(good)
    /\ SubSeq(after, 1, Len(before)) = before
    /\ \A i \in good :
          LET row == after[Len(before) + RankIn(good, i)] IN
          /\ row.nama = Strip(ResolvedName(items[i]))
          /\ row.tanggal_kunjungan = ResolvedVisit(items[i]).day
          /\ row.tanggal_lahir = (IF GivenDate(items[i].tanggal_lahir)
                                  THEN items[i].tanggal_lahir.day ELSE NoneDate)
    /\ Len(body.errors) = Cardinality(bad)
    /\ \A i \in bad :
          LET e == body.errors[RankIn(bad, i)] IN
          /\ e.index = i - 1
          /\ e.item = items[i]

\* C11 (as claimed): a processed batch creates, stores and reports its
\* items one by one, an item being valid when a non-empty trimmed name
\* stands under nama or name, a parseable visit date under
\* tanggal_kunjungan or visit_date, and the birth date is absent or
\* parseable.
C11_ItemsUnderEitherKey ==
    [][(req'.op = "import_patients" /\ Authentic(req'.token) /\ Processed(resp')) =>
          ReportMatches(BodyItems(req'.args), EitherKeyIndices(BodyItems(req'.args)),
                        patients, patients', resp'.body)]_vars

\* C11 (amended): the same, an item's name being the value under nama
\* when that is set and not "", else the value under name, and its visit
\* date the value under tanggal_kunjungan when that is set and not "", else
\* the value under visit_date; a blank nama or an unparseable
\* tanggal_kunjungan is not replaced by the other key.
C11_ItemsIndependent ==
    [][(req'.op = "import_patients" /\ Authentic(req'.token) /\ Processed(resp')) =>
          ReportMatches(BodyItems(req'.args), ValidIndices(BodyItems(req'.args)),
                        patients, patients', resp'.body)]_vars

\* three items, the second without a name: two created, one error at index 1
C11_Witness ==
    /\ req.op = "import_patients"
    /\ Processed(resp)
    /\ Len(BodyItems(req.args)) = 3
    /\ ValidItem(req.args.items[1])
    /\ Strip(ResolvedName(req.args.items[2])) = EmptyText
    /\ ValidItem(req.args.items[3])
    /\ resp.body.created = 2
    /\ Len(resp.body.errors) = 1
    /\ resp.body.errors[1].index = 1
    /\ Len(patients) >= 2

\* C12: an import answered with the storage failure of its commit leaves
\* both tables as they were, whatever items the batch held, and carries the
\* one error 500 and no report of created records or per-item errors.
C12_CommitFailureRollsBack ==
    [][(req'.op = "import_patients" /\ Authentic(req'.token) /\ resp'.status = 500) =>
          /\ patients' = patients
          /\ users' = users
          /\ resp'.raised = 500
          /\ resp'.body = NoBody]_vars

\* the commit of a batch of two valid items and an invalid one fails
C12_Witness ==
    /\ req.op = "import_patients"
    /\ Authentic(req.token)
    /\ Len(BodyItems(req.args)) = 3
    /\ Cardinality({i \in 1..3 : ValidItem(req.args.items[i])}) = 2
    /\ resp.status = 500
    /\ resp.raised = 500
    /\ Len(patients) = 1

\* C13 (as claimed): a processed batch is answered 200 exactly when every
\* item succeeded and 207 exactly when at least one item failed, and the
\* report carries the created count and the errors in index order.
C13_StatusByFailures ==
    [][(req'.op = "import_patients" /\ Authentic(req'.token) /\ Processed(resp')) =>
          LET items == BodyItems(req'.args)
              failedItems == {i \in 1..Len(items) : ~ValidItem(items[i])}
          IN
          /\ resp'.status = 200 <=> failedItems = {}
          /\ resp'.status = 207 <=> failedItems # {}
          /\ resp'.body.created = Len(items) - Cardinality(failedItems)
          /\ Len(resp'.body.errors) = Cardinality(failedItems)
          /\ \A k \in 1..(Len(resp'.body.errors) - 1) :
                 resp'.body.errors[k].index < resp'.body.errors[k + 1].index]_vars

\* C13 (amended): a processed batch is answered 200 exactly when it holds
\* at least one item and every item succeeded, and 207 exactly when at
\* least one item failed or the batch is empty; the report carries the
\* created count and the errors in index order.
C13_StatusByCreatedAndFailures ==
    [][(req'.op = "import_patients" /\ Authentic(req'.token) /\ Processed(resp')) =>
          LET items == BodyItems(req'.args)
              failedItems == {i \in 1..Len(items) : ~ValidItem(items[i])}
          IN
          /\ resp'.status = 200 <=> (items # <<>> /\ failedItems = {})
          /\ resp'.status = 207 <=> (items = <<>> \/ failedItems # {})
          /\ resp'.body.created = Len(items) - Cardinality(failedItems)
          /\ Len(resp'.body.errors) = Cardinality(failedItems)
          /\ \A k \in 1..(Len(resp'.body.errors) - 1) :
                 resp'.body.errors[k].index < resp'.body.errors[k + 1].index]_vars

\* three valid items: 200, three created, no error
C13_Witness ==
    /\ req.op = "import_patients"
    /\ Processed(resp)
    /\ Len(BodyItems(req.args)) = 3
    /\ resp.status = 200
    /\ resp.body.created = 3
    /\ resp.body.errors = <<>>

-----------------------------------------------------------------------------
(* SpecRace: two sessions of the signed-in admin post account forms        *)
(* concurrently.  Each request runs in its own database session (get_db):  *)
(* the duplicate check and the commit are two steps, and steps of the two  *)
(* requests interleave.  Here req and resp hold one request and one        *)
(* response per session.                                                   *)

Sessions == {1, 2}

\* the response slot of a request that passed the checks and has not
\* committed yet
Pending(op) == Response(op, 0, 0, "", "", NoUser, "none", [kind |-> "pending"])

OtherPw == <<"r", "a", "h", "a", "s", "i", "a">>

RaceForms ==
    {UserForm(BudiName, BudiPw, BudiPw),
     UserForm(<<" ">> \o BudiName, OtherPw, OtherPw),
     UserForm(AniName, BudiPw, BudiPw),
     UserForm(DokterName, BudiPw, BudiPw),
     UserForm(BudiName, BudiPw, OtherPw)}

InitRace ==
    /\ on_startup
    /\ now = 0
    /\ cookie = create_access_token(AdminName, now)
    /\ req = [s \in Sessions |-> NoRequest]
    /\ resp = [s \in Sessions |-> NoResponse]

\* create_user up to "if errors: return": the gate, the form checks and
\* the duplicate query
create_user_check(s, token, wants_html, username, password, password2) ==
    LET a == require_role({"admin"}, token)
        form == UserForm(Strip(OrEmpty(username)), OrEmpty(password), OrEmpty(password2))
        errors0 == UserFormErrors(form)
        errors == IF errors0 = {} /\ UserByName(form.username) # NoUser
                  THEN {<<"username", "taken">>}
                  ELSE errors0
    IN
    /\ req[s] = NoRequest
    /\ req' = [req EXCEPT ![s] = Request("create_user", token,
                                         UserForm(username, password, password2))]
    /\ resp' = [resp EXCEPT ![s] =
                   IF a.code # 0
                   THEN http_exception_handler("create_user", a.code, a.detail, wants_html)
                   ELSE IF errors # {}
                   THEN TemplateResponse("create_user", 400, a.user,
                                         [kind |-> "user_form", errors |-> errors])
                   ELSE Pending("create_user")]
    /\ UNCHANGED <<users, patients, cookie, now>>

\* mutant: the store does not enforce the unique index on username
create_user_commit_unconstrained(s, dbOk) ==
    LET args == req[s].args
        form == UserForm(Strip(OrEmpty(args.username)), OrEmpty(args.password),
                         OrEmpty(args.password2))
        admin == get_current_user(req[s].token).user
    IN
    /\ resp[s] = Pending("create_user")
    /\ IF ~dbOk THEN
           /\ resp' = [resp EXCEPT ![s] =
                          TemplateResponse("create_user", 500, admin,
                              [kind |-> "user_form", errors |-> {<<"__all__", "db">>}])]
           /\ UNCHANGED users
       ELSE
           /\ users' = users \cup {User(form.username, form.password, "dokter")}
           /\ resp' = [resp EXCEPT ![s] =
                          RedirectResponse("create_user", "/users?created=1", admin)]
    /\ UNCHANGED <<patients, cookie, now, req>>

\* create_user from "Simpan": db.add, db.commit.  The commit raises
\* IntegrityError, a SQLAlchemyError, when the unique index on
\* users.username already holds the name, and may fail otherwise (dbOk)
create_user_commit(s, dbOk) ==
    LET args == req[s].args
        form == UserForm(Strip(OrEmpty(args.username)), OrEmpty(args.password),
                         OrEmpty(args.password2))
        admin == get_current_user(req[s].token).user
        unique == \A u \in users : u.username # form.username
    IN
    /\ resp[s] = Pending("create_user")
    /\ IF ~dbOk \/ ~unique THEN
           /\ resp' = [resp EXCEPT ![s] =
                          TemplateResponse("create_user", 500, admin,
                              [kind |-> "user_form", errors |-> {<<"__all__", "db">>}])]
           /\ UNCHANGED users
       ELSE
           /\ users' = users \cup {User(form.username, form.password, "dokter")}
           /\ resp' = [resp EXCEPT ![s] =
                          RedirectResponse("create_user", "/users?created=1", admin)]
    /\ UNCHANGED <<patients, cookie, now, req>>

\* the client of session s reads its response
SessionReceive(s) ==
    /\ req[s] # NoRequest
    /\ resp[s].status # 0
    /\ req' = [req EXCEPT ![s] = NoRequest]
    /\ resp' = [resp EXCEPT ![s] = NoResponse]
    /\ UNCHANGED <<users, patients, cookie, now>>

RaceCheck ==
    \E s \in Sessions, form \in RaceForms :
        create_user_check(s, cookie, TRUE, form.username, form.password, form.password2)

RaceCommit == \E s \in Sessions, dbOk \in BOOLEAN : create_user_commit(s, dbOk)

RaceReceive == \E s \in Sessions : SessionReceive(s)

NextRace ==
    \/ RaceCheck
    \/ RaceCommit
    \/ RaceReceive

SpecRace == InitRace /\ [][NextRace]_vars

-----------------------------------------------------------------------------
(* Accounts: C14 *)

UniqueUsernames(table) == \A u, v \in table : u.username = v.username => u = v

\* the name a request's form asks for
AskedName(request) == Strip(OrEmpty(request.args.username))

\* C14: after seeding and after every step of any interleaving no two
\* stored users share a username; and a request that passed the duplicate
\* check and commits when the name is stored by then creates no account
\* and is answered with the failure status 500.
C14_UniqueUsernames ==
    /\ UniqueUsernames(users)
    /\ [][/\ UniqueUsernames(users')
          /\ \A s \in Sessions :
                (/\ resp[s] = Pending("create_user")
                 /\ resp'[s] # resp[s]
                 /\ \E u \in users : u.username = AskedName(req[s])) =>
                    /\ users' = users
                    /\ resp'[s].status = 500]_vars

\* both requests passed the duplicate check for one name; the first
\* committed and the second was refused
C14_Witness ==
    /\ \E s, t \in Sessions :
          /\ s # t
          /\ req[s].op = "create_user"
          /\ req[t].op = "create_user"
          /\ AskedName(req[s]) = AskedName(req[t])
          /\ req[s].args.password # req[t].args.password
          /\ resp[s].status = 302
          /\ resp[t].status = 500
          /\ Cardinality({u \in users : u.username = AskedName(req[s])}) = 1

-----------------------------------------------------------------------------
(* Patient forms: C15 *)

\* a form whose fields other than the birth date pass the handler's checks
\* for the doctor who sends it
OtherFieldsValid(form, doctor) ==
    PatientFormErrors(FormValues([form EXCEPT !.tanggal_lahir = IsoDate(1)]),
                      DoctorsFor(doctor)) = {}

NoBirthDate(form) == form.tanggal_lahir.kind \in {"absent", "empty"}

\* C15 (as claimed): a doctor's create or edit submission with no birth
\* date and every other field valid is not refused by validation, and
\* when it is stored the record's birth date is null.  The other answer
\* allowed is the 500 of a commit that fails; an edit's 500 is the same
\* response whether the commit failed or the form was refused.
C15_BirthDateOptional ==
    [][/\ (/\ req'.op = "create_patient"
           /\ Authentic(req'.token)
           /\ Bearer(req'.token).role = "dokter"
           /\ NoBirthDate(req'.args)
           /\ OtherFieldsValid(req'.args, Bearer(req'.token))) =>
              \/ /\ resp'.status = 302
                 /\ Len(patients') = Len(patients) + 1
                 /\ patients'[Len(patients')].tanggal_lahir = NoneDate
              \/ /\ resp'.status = 500
                 /\ resp'.body # NoBody
                 /\ resp'.body.errors = {<<"__all__", "db">>}
       /\ (/\ req'.op = "update_patient"
           /\ Authentic(req'.token)
           /\ Bearer(req'.token).role = "dokter"
           /\ RowIndex(req'.args.patient_id) # 0
           /\ NoBirthDate(req'.args.form)
           /\ OtherFieldsValid(req'.args.form, Bearer(req'.token))) =>
              \/ /\ resp'.status = 302
                 /\ patients'[RowIndex(req'.args.patient_id)].tanggal_lahir = NoneDate
              \/ /\ resp'.status = 500
                 /\ patients' = patients]_vars

-----------------------------------------------------------------------------
(* SpecCharts: a signed-in doctor stores visits with and without a         *)
(* diagnosis and a procedure, and asks for the dashboard and the export    *)
(* with a name filter and date texts; the dashboard's queries answer or    *)
(* one of them fails.                                                      *)

MaxChartRows == 2

ChartItems ==
    {ImportItem(nama, NoText, IsoDate(day), AbsentDate, AbsentDate, cat[1], cat[2], NoText) :
        nama \in {AniName, BinName}, day \in AggDays,
        cat \in {<<Flu, Obat>>, <<Flu, NoText>>}}

ChartDates == {AbsentDate, BadDate} \cup {IsoDate(d) : d \in AggDays}

InitCharts ==
    /\ on_startup
    /\ now = 0
    /\ cookie = create_access_token(DokterName, now)
    /\ req = NoRequest
    /\ resp = NoResponse

ChartsImport ==
    \E item \in ChartItems :
        /\ Len(patients) < MaxChartRows
        /\ import_patients(cookie, TRUE, DictPayload(item), TRUE)

ChartsDashboard ==
    \E q \in Queries, start \in ChartDates, end \in ChartDates, fail \in SingleFailures :
        LET rng == DashboardRange(start, end, Today) IN
        \E d \in Orderings(DiagGroups(q, rng)), n \in Orderings(TindGroups(q, rng)) :
            dashboard(cookie, TRUE, q, start, end, fail, d, n)

ChartsExport ==
    \E q \in Queries, start \in ChartDates, end \in ChartDates :
        export_excel(cookie, TRUE, q, start, end, TRUE, TRUE)

NextCharts ==
    \/ Idle /\ ChartsImport
    \/ Idle /\ ChartsDashboard
    \/ Idle /\ ChartsExport
    \/ Receive

SpecCharts == InitCharts /\ [][NextCharts]_vars

-----------------------------------------------------------------------------
(* Listing, export and charts: C16, C17 *)

\* the step is a run of the dashboard handler in which the queries of
\* fail raise SQLAlchemyError
DashboardRanWith(fail) ==
    /\ req'.op = "dashboard"
    /\ LET rng == DashboardRange(req'.args.start, req'.args.end, Today) IN
       \E d \in Orderings(DiagGroups(req'.args.q, rng)),
          n \in Orderings(TindGroups(req'.args.q, rng)) :
           dashboard(req'.token, TRUE, req'.args.q, req'.args.start, req'.args.end,
                     fail, d, n)

\* the records the listing of the response shows whose column is set
ListedWith(column) ==
    {r \in Range(resp.body.patients) : r[column] # NoText /\ r[column] # EmptyText}

\* the per-day chart counts the listing: ascending days, every day of the
\* listing and no other, each with the number of listed records of the day
VisitsCountListing ==
    LET labels == resp.body.visits_labels
        values == resp.body.visits_values
        listing == resp.body.patients
    IN
    /\ Len(values) = Len(labels)
    /\ \A k \in 1..(Len(labels) - 1) : labels[k].day < labels[k + 1].day
    /\ {labels[k].day : k \in 1..Len(labels)} =
           {listing[i].tanggal_kunjungan : i \in 1..Len(listing)}
    /\ \A k \in 1..Len(labels) :
          /\ values[k] >= 1
          /\ values[k] = Cardinality({i \in 1..Len(listing) :
                                         listing[i].tanggal_kunjungan = labels[k].day})
    /\ SumSeq(values) = Len(listing)

\* a category chart counts the listed records whose column is set
BucketCountsListing(column) ==
    LET labels == BucketLabels(column)
        values == BucketValues(column)
    IN
    /\ Len(values) = Len(labels)
    /\ {labels[k] : k \in 1..Len(labels)} = {r[column] : r \in ListedWith(column)}
    /\ \A k \in 1..Len(labels) :
          values[k] = Cardinality({r \in ListedWith(column) : r[column] = labels[k]})
    /\ SumSeq(values) = Cardinality(ListedWith(column))

\* the ids the export writes for the request's q, start and end
ExportIdsFor(args) ==
    LET rng == ExportRange(args.start, args.end, Today)
        rows == ExportQuery(patients, args.q, rng.start, rng.end)
    IN {rows[i].id : i \in 1..Len(rows)}

\* the ids the dashboard lists for the request's q, start and end
ListingIdsFor(args) ==
    LET rng == DashboardRange(args.start, args.end, Today)
        rows == ListingQuery(patients, args.q, rng.start, rng.end)
    IN {rows[i].id : i \in 1..Len(rows)}

ListingIsExportSet ==
    /\ {r.id : r \in Range(resp.body.patients)} = ExportIdsFor(req.args)
    /\ Cardinality(Range(resp.body.patients)) = Len(resp.body.patients)

SameSetEverywhere ==
    /\ ListingIsExportSet
    /\ VisitsCountListing
    /\ \A column \in CategoryColumns : BucketCountsListing(column)

\* C16: for one table, one day and one (q, start, end), the dashboard
\* whose queries all answer lists the records the export writes; its
\* per-day chart has ascending days, counts of at least 1 that are the
\* listed records of each day, and sums to the size of the listing; its two
\* category charts count the listed records whose field is set.  And the
\* export writes the records the dashboard lists.
C16_SameSet ==
    [][/\ DashboardRanWith(NoFailures) => SameSetEverywhere'
       /\ (req'.op = "export_excel" /\ resp'.status = 200) =>
              {resp'.body.data[i].ID : i \in 1..Len(resp'.body.data)}
                  = ListingIdsFor(req'.args)]_vars

\* a name filter and a date range that keep one of two stored records
C16_Witness ==
    /\ Served("dashboard")
    /\ Truthy(req.args.q)
    /\ Parses(req.args.start)
    /\ Parses(req.args.end)
    /\ Len(patients) = 2
    /\ Len(resp.body.patients) = 1
    /\ resp.body.visits_values = <<1>>
    /\ resp.body.diag_values = <<1>>
    /\ resp.body.tind_values = <<1>>

\* C17: a dashboard run in which one aggregation query fails is rendered
\* (200) with the listing, with empty labels and values for that
\* aggregation and with the other aggregations counting the listing; a run
\* in which the listing query fails is answered 500 with no body.
C17_AggregationFailure ==
    [][\A fail \in SingleFailures :
          (DashboardRanWith(fail) /\ Authentic(req'.token)) =>
              IF fail.list
              THEN /\ resp'.status = 500
                   /\ resp'.raised = 500
                   /\ resp'.body = NoBody
              ELSE /\ resp'.status = 200
                   /\ ListingIsExportSet'
                   /\ IF fail.visits
                      THEN resp'.body.visits_labels = <<>> /\ resp'.body.visits_values = <<>>
                      ELSE VisitsCountListing'
                   /\ IF fail.diag
                      THEN resp'.body.diag_labels = <<>> /\ resp'.body.diag_values = <<>>
                      ELSE BucketCountsListing("diagnosis")'
                   /\ IF fail.tind
                      THEN resp'.body.tind_labels = <<>> /\ resp'.body.tind_values = <<>>
                      ELSE BucketCountsListing("tindakan")']_vars

\* the diagnosis chart is empty over a listing that holds diagnoses, and
\* the other two charts are drawn
C17_Witness ==
    /\ Served("dashboard")
    /\ resp.body.diag_labels = <<>>
    /\ ListedWith("diagnosis") # {}
    /\ resp.body.visits_labels # <<>>
    /\ resp.body.tind_labels # <<>>

-----------------------------------------------------------------------------
(* SpecEdits: two sessions of the signed-in doctor post edits of the one   *)
(* stored record concurrently.  Each request runs in its own database      *)
(* session (get_db): db.get loads the record into the session, and the     *)
(* commit writes it back; steps of the two requests interleave.  Here req  *)
(* and resp hold one request and one response per session.                 *)

\* the response slot of an edit that loaded row and passed the checks and
\* has not committed yet
Loaded(op, row) == Response(op, 0, 0, "", "", NoUser, "none", [kind |-> "loaded", patient |-> row])

PatientColumns ==
    {"nama", "tanggal_lahir", "tanggal_kunjungan", "diagnosis", "tindakan", "dokter"}

EditForms ==
    {PatientForm(nama, IsoDate(1), IsoDate(FirstDay), diagnosis, Obat, DokterName) :
        nama \in {AniName, BinName}, diagnosis \in {Flu, Obat}}
    \cup {PatientForm(AniName, IsoDate(1), BadDate, Flu, Obat, DokterName)}

\* one record, as create_patient stores it
InitEdits ==
    /\ users = {User(AdminName, AdminPw, "admin"), User(DokterName, DokterPw, "dokter")}
    /\ now = 0
    /\ cookie = create_access_token(DokterName, now)
    /\ \E tindakan \in {Flu, Obat} :
          patients = <<Patient(1, AniName, 1, FirstDay, Flu, tindakan, DokterName)>>
    /\ req = [s \in Sessions |-> NoRequest]
    /\ resp = [s \in Sessions |-> NoResponse]

\* update_patient up to "if errors: return": the gate, db.get and the
\* form checks
update_patient_load(s, token, wants_html, patient_id, form) ==
    LET a == require_role({"dokter"}, token)
        i == RowIndex(patient_id)
        errors == PatientFormErrors(FormValues(form), DoctorsFor(a.user))
    IN
    /\ req[s] = NoRequest
    /\ req' = [req EXCEPT ![s] = Request("update_patient", token,
                                         [patient_id |-> patient_id, form |-> form])]
    /\ resp' = [resp EXCEPT ![s] =
                   IF a.code # 0
                   THEN http_exception_handler("update_patient", a.code, a.detail, wants_html)
                   ELSE IF i = 0
                   THEN http_exception_handler("update_patient", 404,
                                               "Data pasien tidak ditemukan.", wants_html)
                   ELSE IF errors # {}
                   THEN unhandled_exception_handler("update_patient")
                   ELSE Loaded("update_patient", patients[i])]
    /\ UNCHANGED <<users, patients, cookie, now>>

\* the UPDATE the session's flush emits: the columns whose assigned value
\* differs from the value the session loaded
ChangedColumns(loaded, assigned) == {c \in PatientColumns : assigned[c] # loaded[c]}

\* update_patient from "try": the six assignments and db.commit.  The
\* commit fails (dbOk), or raises StaleDataError, a SQLAlchemyError, when
\* the row is gone; both end in the re-render that raises NameError
update_patient_commit(s, dbOk) ==
    LET patient_id == req[s].args.patient_id
        loaded == resp[s].body.patient
        assigned == PatientOfForm(patient_id, FormValues(req[s].args.form))
        changed == ChangedColumns(loaded, assigned)
        i == RowIndex(patient_id)
    IN
    /\ resp[s].status = 0
    /\ resp[s].body.kind = "loaded"
    /\ IF ~dbOk \/ (i = 0 /\ changed # {}) THEN
           /\ resp' = [resp EXCEPT ![s] = unhandled_exception_handler("update_patient")]
           /\ UNCHANGED patients
       ELSE
           /\ patients' = IF i = 0 THEN patients
                          ELSE [patients EXCEPT ![i] =
                                   [c \in DOMAIN @ |-> IF c \in changed THEN assigned[c] ELSE @[c]]]
           /\ resp' = [resp EXCEPT ![s] =
                          RedirectResponse("update_patient", "/patients",
                                           get_current_user(req[s].token).user)]
    /\ UNCHANGED <<users, cookie, now, req>>

EditsLoad ==
    \E s \in Sessions, form \in EditForms : update_patient_load(s, cookie, TRUE, 1, form)

EditsCommit == \E s \in Sessions, dbOk \in BOOLEAN : update_patient_commit(s, dbOk)

EditsReceive == \E s \in Sessions : SessionReceive(s)

NextEdits ==
    \/ EditsLoad
    \/ EditsCommit
    \/ EditsReceive

SpecEdits == InitEdits /\ [][NextEdits]_vars

-----------------------------------------------------------------------------
(* Concurrent edits: C18 *)

\* the record an edit request submits
Submitted(request) ==
    LET form == request.args.form IN
    Patient(request.args.patient_id, Strip(form.nama), form.tanggal_lahir.day,
            form.tanggal_kunjungan.day, Strip(form.diagnosis), Strip(form.tindakan),
            Strip(form.dokter))

\* C18 (as claimed): when an edit of a session commits, with or without an
\* edit of the other session committed since it loaded the record, it is
\* answered without error and the stored record then equals what it
\* submitted in all six fields.
C18_LastWriterWins ==
    [][\A s \in Sessions :
          (/\ resp[s].status = 0
           /\ resp[s].body.kind = "loaded"
           /\ resp'[s].status = 302) =>
              patients'[RowIndex(req[s].args.patient_id)] = Submitted(req[s])]_vars

====
